---- MODULE Spec2Model ----
(***************************************************************************)
(* A model of the json-with-comment deserializer: the position tracker     *)
(* (RowColIterator), the Tokenizer with its one item of lookahead, and the *)
(* serde Deserializer with its sequence / map access adapters.             *)
(*                                                                         *)
(* Bytes are integers 0..255.  The byte source is an in-memory slice, so   *)
(* reads never fail and every item the position tracker yields is Ok(c).   *)
(* Every operation of the program is a pure operator over a tokenizer      *)
(* record (it returns the tokenizer it leaves behind and its result); the  *)
(* actions at the end apply the operations to the state.                   *)
(***************************************************************************)
EXTENDS Integers, Sequences, FiniteSets, TLC

VARIABLES tokenizer, ret, pc, ub, builder

vars == <<tokenizer, ret, pc, ub, builder>>

(***************************************************************************)
(* Bounds of the model.                                                    *)
(***************************************************************************)
MaxLen == 4
MaxCalls == 3

(***************************************************************************)
(* Bytes.                                                                  *)
(***************************************************************************)
TAB == 9
LF == 10
FF == 12
CR == 13
SPACE == 32
QUOTE == 34
STAR == 42
COMMA == 44
MINUS == 45
SLASH == 47
COLON == 58
LBRACKET == 91
BACKSLASH == 92
RBRACKET == 93
LBRACE == 123
RBRACE == 125
DEL == 127

Str_true == <<116, 114, 117, 101>>
Str_false == <<102, 97, 108, 115, 101>>
Str_null == <<110, 117, 108, 108>>

\* u8::is_ascii_whitespace: space, tab, line feed, form feed, carriage return
IsAsciiWhitespace(c) == c \in {SPACE, TAB, LF, FF, CR}

\* u8::is_ascii_control: 0x00..0x1F and 0x7F
IsAsciiControl(c) == c \in 0..31 \/ c = DEL

\* u8::is_ascii_alphanumeric
IsAsciiAlphanumeric(c) == c \in 48..57 \/ c \in 65..90 \/ c \in 97..122

IsDigit(c) == c \in 48..57

(***************************************************************************)
(* Items and results.                                                      *)
(***************************************************************************)
None == [k |-> "none"]
Some(pos, c) == [k |-> "some", pos |-> pos, c |-> c]

NoPeek == [has |-> FALSE]
Peeked(item) == [has |-> TRUE, item |-> item]

NoVal == [k |-> "noval"]
NoErr == [kind |-> "none"]

Ok(t, v) == [t |-> t, k |-> "ok", v |-> v, e |-> NoErr]
Err(t, e) == [t |-> t, k |-> "err", v |-> NoVal, e |-> e]
Panic(t, why) == [t |-> t, k |-> "panic", v |-> NoVal, e |-> [kind |-> why]]

\* the SyntaxError variants: without data, with a position and the found byte
SyntaxEof(kind) == [kind |-> kind]
SyntaxAt(kind, item) == [kind |-> kind, pos |-> item.pos, found |-> item.c]

(***************************************************************************)
(* Tokenizer::new / RowColIterator::new                                    *)
(* log is the history of the items RowColIterator::next has yielded.       *)
(***************************************************************************)
NewTokenizer(src) ==
    [src |-> src, idx |-> 1, row |-> 0, col |-> 0, peeked |-> NoPeek, log |-> <<>>]

\* RowColIterator::next that forgets to reset the column after a line feed
RowColNextKeepsColumn(t) ==
    IF t.idx > Len(t.src)
    THEN [t |-> t, item |-> None]
    ELSE LET c == t.src[t.idx]
             pos == <<t.row, t.col>>
             item == Some(pos, c)
         IN  [t |-> [t EXCEPT !.idx = @ + 1,
                              !.row = IF c = LF THEN @ + 1 ELSE @,
                              !.col = @ + 1,
                              !.log = Append(@, item)],
              item |-> item]

\* RowColIterator::next
RowColNext(t) ==
    IF t.idx > Len(t.src)
    THEN [t |-> t, item |-> None]
    ELSE LET c == t.src[t.idx]
             pos == <<t.row, t.col>>
             item == Some(pos, c)
         IN  [t |-> [t EXCEPT !.idx = @ + 1,
                              !.row = IF c = LF THEN @ + 1 ELSE @,
                              !.col = IF c = LF THEN 0 ELSE @ + 1,
                              !.log = Append(@, item)],
              item |-> item]

\* let r = call; body  is written  The({body : r \in {call}})
The(S) == CHOOSE v \in S : TRUE

\* Tokenizer::eat: Peekable::next over the position tracker
Eat(t) ==
    IF t.peeked.has
    THEN [t |-> [t EXCEPT !.peeked = NoPeek], item |-> t.peeked.item]
    ELSE RowColNext(t)

\* a find that takes the byte it hands out
FindDestructive(t) == Eat(t)

\* Tokenizer::find: Peekable::peek over the position tracker
Find(t) ==
    IF t.peeked.has
    THEN [t |-> t, item |-> t.peeked.item]
    ELSE The({[t |-> [r.t EXCEPT !.peeked = Peeked(r.item)], item |-> r.item]
              : r \in {RowColNext(t)}})

RECURSIVE EatWhitespace(_)
\* Tokenizer::eat_whitespace
EatWhitespace(t) ==
    The({IF r.item.k = "none" THEN r
         ELSE IF ~IsAsciiWhitespace(r.item.c) THEN r
         ELSE EatWhitespace(r.t)
         : r \in {Eat(t)}})

\* a skip_whitespace that takes the byte it hands out
SkipWhitespaceDestructive(t) == EatWhitespace(t)

RECURSIVE SkipWhitespace(_)
\* Tokenizer::skip_whitespace
SkipWhitespace(t) ==
    The({IF r.item.k = "none" THEN r
         ELSE IF IsAsciiWhitespace(r.item.c) THEN SkipWhitespace(Eat(r.t).t)
         ELSE r
         : r \in {Find(t)}})

(***************************************************************************)
(* Identifiers.                                                            *)
(***************************************************************************)
\* the cap of parse_ident on the length of a folded run
max == 10

Contains(s, c) == \E i \in 1..Len(s) : s[i] = c

\* the closure without its bound on the length
IdentPredicateNoCap(ident, b, c) == IsAsciiAlphanumeric(c) \/ Contains(ident, c)

\* the closure parse_ident hands to fold_token
IdentPredicate(ident, b, c) ==
    Len(b) < max /\ (IsAsciiAlphanumeric(c) \/ Contains(ident, c))

RECURSIVE FoldLoop(_, _, _, _)
\* Tokenizer::fold_token, its while loop
FoldLoop(t, ident, end, buff) ==
    The({IF r.item.k = "none" THEN [t |-> r.t, end |-> end, buff |-> buff]
         ELSE IF IdentPredicate(ident, buff, r.item.c)
              THEN The({FoldLoop(e.t, ident, e.item.pos, Append(buff, r.item.c))
                        : e \in {Eat(r.t)}})
              ELSE [t |-> r.t, end |-> end, buff |-> buff]
         : r \in {Find(t)}})

\* Tokenizer::fold_token, called with the closure of parse_ident
FoldToken(t, ident) ==
    The({IF s.item.k = "none" THEN Err(s.t, SyntaxEof("EofWhileParsingIdent"))
         ELSE The({Ok(f.t, [k |-> "token", start |-> s.item.pos, end |-> f.end,
                            buff |-> f.buff])
                   : f \in {FoldLoop(s.t, ident, s.item.pos, <<>>)}})
         : s \in {SkipWhitespace(t)}})

\* parse_ident that reports a mismatch at the last byte of the folded run
ParseIdentAtEnd(t, ident, value) ==
    The({IF r.k # "ok" THEN r
         ELSE IF r.v.buff = ident THEN Ok(r.t, value)
         ELSE Err(r.t, [kind |-> "UnexpectedIdent", pos |-> r.v.end,
                        end |-> r.v.end, expected |-> ident, found |-> r.v.buff])
         : r \in {FoldToken(t, ident)}})

\* Tokenizer::parse_ident
ParseIdent(t, ident, value) ==
    The({IF r.k # "ok" THEN r
         ELSE IF r.v.buff = ident THEN Ok(r.t, value)
         ELSE Err(r.t, [kind |-> "UnexpectedIdent", pos |-> r.v.start,
                        end |-> r.v.end, expected |-> ident, found |-> r.v.buff])
         : r \in {FoldToken(t, ident)}})

(***************************************************************************)
(* String literals.                                                        *)
(***************************************************************************)
Bytes(b) == [k |-> "bytes", v |-> b]

\* the value of a hex digit: the three arms of parse_unicode's match
HexValue(c) ==
    IF c \in 48..57 THEN c - 48
    ELSE IF c \in 97..102 THEN c - 97 + 10
    ELSE IF c \in 65..70 THEN c - 65 + 10
    ELSE -1

\* char::encode_utf8, by the length classes of the code
EncodeUtf8(code) ==
    IF code < 128 THEN <<code>>
    ELSE IF code < 2048 THEN <<192 + (code \div 64), 128 + (code % 64)>>
    ELSE IF code < 65536
         THEN <<224 + (code \div 4096), 128 + ((code \div 64) % 64), 128 + (code % 64)>>
         ELSE <<240 + (code \div 262144), 128 + ((code \div 4096) % 64),
                128 + ((code \div 64) % 64), 128 + (code % 64)>>

\* char::from_u32 accepts exactly the Unicode scalar values
IsScalarValue(code) == code \in 0..55295 \/ code \in 57344..1114111

RECURSIVE UnicodeLoop(_, _, _)
\* Tokenizer::parse_unicode, its for loop over the 4 digits (<< is a shift of
\* a u32 that cannot overflow: the result is below 16^4)
UnicodeLoop(t, i, hex) ==
    IF i = 4 THEN Ok(t, [k |-> "hex", v |-> hex])
    ELSE The({IF r.item.k = "none"
              THEN Err(r.t, SyntaxEof("EofWhileParsingEscapeSequence"))
              ELSE IF HexValue(r.item.c) >= 0
                   THEN UnicodeLoop(r.t, i + 1, hex + HexValue(r.item.c) * 16 ^ (3 - i))
                   ELSE Err(r.t, SyntaxAt("InvalidUnicodeEscape", r.item))
              : r \in {Eat(t)}})

\* Tokenizer::parse_unicode.  char::from_u32_unchecked of a code that is no
\* scalar value is undefined behaviour; ub is the outcome the build produces:
\* "transmute" (the code is taken as a char and encoded by its length class)
\* or "abort" (the checked precondition of from_u32_unchecked stops the
\* process).
ParseUnicode(t, buff) ==
    The({IF r.k # "ok" THEN r
         ELSE IF ~IsScalarValue(r.v.v) /\ ub = "abort"
              THEN Panic(r.t, "from_u32_unchecked")
              ELSE Ok(r.t, Bytes(buff \o EncodeUtf8(r.v.v)))
         : r \in {UnicodeLoop(t, 0, 0)}})

\* Tokenizer::parse_escape_sequence, the table of the one-byte escapes
EscapeByte(c) ==
    CASE c = QUOTE -> QUOTE
      [] c = BACKSLASH -> BACKSLASH
      [] c = SLASH -> SLASH
      [] c = 98 -> 8
      [] c = 102 -> FF
      [] c = 110 -> LF
      [] c = 114 -> CR
      [] c = 116 -> TAB
      [] OTHER -> -1

\* Tokenizer::parse_escape_sequence
ParseEscapeSequence(t, buff) ==
    The({IF r.item.k = "none"
         THEN Err(r.t, SyntaxEof("EofWhileParsingEscapeSequence"))
         ELSE IF r.item.c # BACKSLASH
         THEN Err(r.t, SyntaxAt("UnexpectedTokenWhileStartParsingEscapeSequence", r.item))
         ELSE The({IF e.item.k = "none"
                   THEN Err(e.t, SyntaxEof("EofWhileParsingEscapeSequence"))
                   ELSE IF EscapeByte(e.item.c) >= 0
                        THEN Ok(e.t, Bytes(Append(buff, EscapeByte(e.item.c))))
                   ELSE IF e.item.c = 117 THEN ParseUnicode(e.t, buff)
                   ELSE Err(e.t, SyntaxAt("InvalidEscapeSequence", e.item))
                   : e \in {Eat(r.t)}})
         : r \in {Eat(t)}})

RECURSIVE ParseStringContent(_, _)
\* Tokenizer::parse_string_content
ParseStringContent(t, buff) ==
    The({IF r.item.k = "none" THEN Err(r.t, SyntaxEof("EofWhileEndParsingString"))
         ELSE IF r.item.c = BACKSLASH
              THEN The({IF e.k # "ok" THEN e ELSE ParseStringContent(e.t, e.v.v)
                        : e \in {ParseEscapeSequence(r.t, buff)}})
         ELSE IF r.item.c = QUOTE THEN Ok(r.t, Bytes(buff))
         ELSE IF IsAsciiControl(r.item.c)
              THEN Err(r.t, [kind |-> "ControlCharacterWhileParsingString",
                             pos |-> r.item.pos, c |-> r.item.c])
         ELSE The({ParseStringContent(e.t, Append(buff, e.item.c))
                   : e \in {Eat(r.t)}})
         : r \in {Find(t)}})

\* the index in src of the next byte the Tokenizer will hand out: the byte in
\* the lookahead buffer, if one is there, else the position tracker's
Cursor(t) ==
    IF t.peeked.has /\ t.peeked.item.k = "some" THEN t.idx - 1 ELSE t.idx

\* Tokenizer::parse_string
ParseString(t) ==
    The({IF r.item.k = "none" THEN Err(r.t, SyntaxEof("EofWhileStartParsingString"))
         ELSE IF r.item.c # QUOTE
         THEN Err(r.t, SyntaxAt("UnexpectedTokenWhileStartParsingString", r.item))
         ELSE The({IF c.k # "ok" THEN c
                   ELSE The({IF e.item.k = "none"
                             THEN Err(e.t, SyntaxEof("EofWhileEndParsingString"))
                             ELSE IF e.item.c = QUOTE THEN Ok(e.t, c.v)
                             ELSE Err(e.t, SyntaxAt("UnexpectedTokenWhileEndParsingString",
                                                    e.item))
                             : e \in {Eat(c.t)}})
                   : c \in {ParseStringContent(r.t, <<>>)}})
         : r \in {EatWhitespace(t)}})

(***************************************************************************)
(* The Tokenizer's loops, one iteration at a time: each operator is the    *)
(* body of the while let, exit tells whether the loop is left by it.       *)
(***************************************************************************)
\* the result of an iteration that stays in the loop, that leaves it
Continue(t, st) == [t |-> t, exit |-> FALSE, st |-> st]
Exit(t, st, r) == [t |-> t, exit |-> TRUE, st |-> st, k |-> r.k, v |-> r.v, e |-> r.e]

\* Ok(Some((pos, c))) and Ok(None) of the two whitespace loops
OkItem(t, item) == Ok(t, [k |-> "item", item |-> item])

\* Tokenizer::eat_whitespace, one iteration
EatWhitespaceIteration(t, st) ==
    The({IF r.item.k = "none" THEN Exit(r.t, st, OkItem(r.t, None))
         ELSE IF ~IsAsciiWhitespace(r.item.c) THEN Exit(r.t, st, OkItem(r.t, r.item))
         ELSE Continue(r.t, st)
         : r \in {Eat(t)}})

\* Tokenizer::skip_whitespace, one iteration
SkipWhitespaceIteration(t, st) ==
    The({IF r.item.k = "none" THEN Exit(r.t, st, OkItem(r.t, None))
         ELSE IF IsAsciiWhitespace(r.item.c) THEN Continue(Eat(r.t).t, st)
         ELSE Exit(r.t, st, OkItem(r.t, r.item))
         : r \in {Find(t)}})

\* the (start, end) and the buffer fold_token returns
Token(st) == [k |-> "token", start |-> st.start, end |-> st.end, buff |-> st.buff]

\* Tokenizer::fold_token, one iteration of its loop with the closure of
\* parse_ident; st holds ident, start, end and buff
FoldTokenIteration(t, st) ==
    The({IF r.item.k = "none" THEN Exit(r.t, st, Ok(r.t, Token(st)))
         ELSE IF IdentPredicate(st.ident, st.buff, r.item.c)
              THEN The({Continue(e.t, [st EXCEPT !.end = e.item.pos,
                                                 !.buff = Append(@, r.item.c)])
                        : e \in {Eat(r.t)}})
              ELSE Exit(r.t, st, Ok(r.t, Token(st)))
         : r \in {Find(t)}})

\* Tokenizer::parse_string_content, one iteration; st holds buff
ParseStringContentIteration(t, st) ==
    The({IF r.item.k = "none"
         THEN Exit(r.t, st, Err(r.t, SyntaxEof("EofWhileEndParsingString")))
         ELSE IF r.item.c = BACKSLASH
              THEN The({IF e.k # "ok" THEN Exit(e.t, st, e)
                        ELSE Continue(e.t, [st EXCEPT !.buff = e.v.v])
                        : e \in {ParseEscapeSequence(r.t, st.buff)}})
         ELSE IF r.item.c = QUOTE THEN Exit(r.t, st, Ok(r.t, Bytes(st.buff)))
         ELSE IF IsAsciiControl(r.item.c)
              THEN Exit(r.t, st, Err(r.t, [kind |-> "ControlCharacterWhileParsingString",
                                           pos |-> r.item.pos, c |-> r.item.c]))
         ELSE The({Continue(e.t, [st EXCEPT !.buff = Append(@, e.item.c)])
                   : e \in {Eat(r.t)}})
         : r \in {Find(t)}})

\* the loop's body by the loop's name
Iteration(loop, t, st) ==
    CASE loop = "eat_whitespace" -> EatWhitespaceIteration(t, st)
      [] loop = "skip_whitespace" -> SkipWhitespaceIteration(t, st)
      [] loop = "fold_token" -> FoldTokenIteration(t, st)
      [] loop = "parse_string_content" -> ParseStringContentIteration(t, st)

(***************************************************************************)
(* The NumberBuilder: a buffer of bytes and a classification tag.  calls   *)
(* is the history of the calls made on it, kept for the properties.        *)
(***************************************************************************)
DOT == 46
PLUS == 43

\* NumberBuilder::new
NewBuilder == [buff |-> <<>>, ty |-> "Integer", calls |-> <<>>]

Called(b, op, bytes) == Append(b.calls, [op |-> op, bytes |-> bytes])

\* NumberBuilder::push
Push(b, c) ==
    [buff |-> Append(b.buff, c), ty |-> b.ty, calls |-> Called(b, "push", <<c>>)]

\* NumberBuilder::extend_from_slice
ExtendFromSlice(b, slice) ==
    [buff |-> b.buff \o slice, ty |-> b.ty,
     calls |-> Called(b, "extend_from_slice", slice)]

\* NumberBuilder::visit_fraction_dot
VisitFractionDot(b, dot) ==
    [buff |-> Append(b.buff, dot), ty |-> "Float",
     calls |-> Called(b, "visit_fraction_dot", <<dot>>)]

\* a visit_exponent_e that leaves the tag as it is
VisitExponentEKeepsTag(b, exp) ==
    [buff |-> Append(b.buff, exp), ty |-> b.ty,
     calls |-> Called(b, "visit_exponent_e", <<exp>>)]

\* NumberBuilder::visit_exponent_e
VisitExponentE(b, exp) ==
    [buff |-> Append(b.buff, exp), ty |-> "Float",
     calls |-> Called(b, "visit_exponent_e", <<exp>>)]

\* String::from_utf8_lossy on the buffer: the chars of the text; a byte that
\* is not ASCII cannot stand alone and becomes U+FFFD
FromUtf8Lossy(buff) == [i \in 1..Len(buff) |-> IF buff[i] < 128 THEN buff[i] ELSE 65533]

AllDigits(text) == \A i \in 1..Len(text) : IsDigit(text[i])

\* text without its leading zeros (one digit is always left)
RECURSIVE StripZeros(_)
StripZeros(text) ==
    IF Len(text) > 1 /\ text[1] = 48 THEN StripZeros(Tail(text)) ELSE text

\* a <= b for digit strings of one length
RECURSIVE DigitsLeq(_, _)
DigitsLeq(a, b) ==
    IF a = <<>> THEN TRUE
    ELSE IF a[1] # b[1] THEN a[1] < b[1]
    ELSE DigitsLeq(Tail(a), Tail(b))

\* 9223372036854775807, the digits of i64::MAX
I64Max == <<57, 50, 50, 51, 51, 55, 50, 48, 51, 54, 56, 53, 52, 55, 55, 53, 56, 48, 55>>

\* whether the magnitude digits (without leading zeros) fit an i64 of that
\* sign: at most i64::MAX, or i64::MAX + 1 when negative
FitsI64(neg, digits) ==
    \/ Len(digits) < Len(I64Max)
    \/ /\ Len(digits) = Len(I64Max)
       /\ \/ DigitsLeq(digits, I64Max)
          \/ neg /\ digits = [I64Max EXCEPT ![19] = 56]

\* the text after an optional sign
Unsigned(text) ==
    IF text # <<>> /\ text[1] \in {PLUS, MINUS} THEN Tail(text) ELSE text

IsNegative(text) == text # <<>> /\ text[1] = MINUS

\* i64::from_str: an optional sign, then digits, within the range of i64; the
\* value is its sign and its digits without leading zeros
I64FromStr(text) ==
    The({IF digits = <<>> \/ ~AllDigits(digits) THEN [k |-> "err", kind |-> "ParseIntError"]
         ELSE IF ~FitsI64(IsNegative(text), StripZeros(digits))
         THEN [k |-> "err", kind |-> "ParseIntError"]
         ELSE [k |-> "ok",
               v |-> [neg |-> IsNegative(text) /\ StripZeros(digits) # <<48>>,
                      digits |-> StripZeros(digits)]]
         : digits \in {Unsigned(text)}})

\* the index of the first byte of text at or after i that is no digit
RECURSIVE DigitsEnd(_, _)
DigitsEnd(text, i) ==
    IF i <= Len(text) /\ IsDigit(text[i]) THEN DigitsEnd(text, i + 1) ELSE i

\* the text in lower case
Lower(text) ==
    [i \in 1..Len(text) |-> IF text[i] \in 65..90 THEN text[i] + 32 ELSE text[i]]

\* the decimal form of f64::from_str, from the end a of the integer digits
\* and the end z of the fraction digits: at least one digit in the two runs,
\* then nothing or an exponent marker, an optional sign and digits
DecimalFrom(u, a, z) ==
    IF (a - 1) + (z - a - (IF z > a THEN 1 ELSE 0)) = 0
    THEN [k |-> "err", kind |-> "ParseFloatError"]
    ELSE IF z > Len(u)
    THEN [k |-> "ok", int |-> SubSeq(u, 1, a - 1), frac |-> SubSeq(u, a + 1, z - 1),
          exp |-> <<>>]
    ELSE IF /\ u[z] \in {101, 69}
            /\ Unsigned(SubSeq(u, z + 1, Len(u))) # <<>>
            /\ AllDigits(Unsigned(SubSeq(u, z + 1, Len(u))))
    THEN [k |-> "ok", int |-> SubSeq(u, 1, a - 1), frac |-> SubSeq(u, a + 1, z - 1),
          exp |-> SubSeq(u, z + 1, Len(u))]
    ELSE [k |-> "err", kind |-> "ParseFloatError"]

\* f64::from_str: an optional sign, then inf, infinity or nan in any case, or
\* the decimal form; the value is kept as its sign and its parts
F64FromStr(text) ==
    The({IF Lower(u) \in {<<105, 110, 102>>, <<110, 97, 110>>,
                          <<105, 110, 102, 105, 110, 105, 116, 121>>}
         THEN [k |-> "ok", v |-> [neg |-> IsNegative(text), special |-> Lower(u)]]
         ELSE The({IF d.k # "ok" THEN d
                   ELSE [k |-> "ok",
                         v |-> [neg |-> IsNegative(text), int |-> d.int,
                                frac |-> d.frac, exp |-> d.exp]]
                   : d \in {DecimalFrom(u, DigitsEnd(u, 1),
                                IF DigitsEnd(u, 1) <= Len(u) /\ u[DigitsEnd(u, 1)] = DOT
                                THEN DigitsEnd(u, DigitsEnd(u, 1) + 1)
                                ELSE DigitsEnd(u, 1))}})
         : u \in {Unsigned(text)}})

\* the variant of a conversion's value, or its error
AsVariant(variant, r) ==
    IF r.k = "ok" THEN [k |-> "ok", variant |-> variant, v |-> r.v]
    ELSE [k |-> "err", variant |-> "none", conversion |-> variant, kind |-> r.kind]

\* <NumberValue<i64, f64> as FromNumberBuilder>::from_number_builder, with
\* <T: FromStr as FromNumberBuilder>::from_number_builder for i64 and f64
FromNumberBuilder(b) ==
    IF b.ty = "Integer" THEN AsVariant("Integer", I64FromStr(FromUtf8Lossy(b.buff)))
    ELSE AsVariant("Float", F64FromStr(FromUtf8Lossy(b.buff)))

\* NumberBuilder::build::<NumberValue<i64, f64>>
Build(b) == FromNumberBuilder(b)

(***************************************************************************)
(* Target shapes: the types a caller asks for, each with the visitor serde *)
(* gives it.                                                               *)
(***************************************************************************)
BoolT == [k |-> "bool"]
UnitT == [k |-> "unit"]
StringT == [k |-> "string"]
\* &str, the text target that borrows from the input
StrT == [k |-> "str"]
IdentT == [k |-> "identifier"]
IgnoredT == [k |-> "ignored"]
OptionT(e) == [k |-> "option", e |-> e]
VecT(e) == [k |-> "vec", e |-> e]
MapT(e) == [k |-> "map", e |-> e]
StructT(names, tys) == [k |-> "struct", names |-> names, tys |-> tys]
TupleT(tys) == [k |-> "tuple", tys |-> tys]
\* an enum: its variants in order, each a name, a form ("unit", "newtype",
\* "tuple" or "struct") and the shape of its payload
Variant(name, form, ty) == [name |-> name, form |-> form, ty |-> ty]
EnumT(variants) == [k |-> "enum", variants |-> variants]

BoolV(b) == [k |-> "bool", v |-> b]
UnitV == [k |-> "unit"]
StrV(b) == [k |-> "str", v |-> b]
IgnoredV == [k |-> "ignored"]
AbsentV == [k |-> "absent"]
PresentV(v) == [k |-> "present", v |-> v]
SeqV(vs) == [k |-> "seq", v |-> vs]
MapV(es) == [k |-> "map", v |-> es]
StructV(vs) == [k |-> "struct", v |-> vs]
VariantV(name, v) == [k |-> "variant", name |-> name, v |-> v]

\* what an access adapter hands back: no more elements, or one
End == [k |-> "end"]
Elem(v) == [k |-> "elem", v |-> v]

\* a visitor's answer: a value, or an error it builds with de::Error::custom
Visited(v) == [k |-> "ok", v |-> v]
VisitorError == [k |-> "custom", v |-> NoVal]

\* impl de::Error for JsonWithCommentError: custom is todo!()
Custom(t) == Panic(t, "todo: de::Error::custom")

\* Visitor::visit_bool of the target's visitor
VisitBool(visitor, b) ==
    CASE visitor.k = "bool" -> Visited(BoolV(b))
      [] visitor.k = "ignored" -> Visited(IgnoredV)
      [] OTHER -> VisitorError

\* Visitor::visit_unit of the target's visitor
VisitUnit(visitor) ==
    CASE visitor.k = "unit" -> Visited(UnitV)
      [] visitor.k = "option" -> Visited(AbsentV)
      [] visitor.k = "ignored" -> Visited(IgnoredV)
      [] OTHER -> VisitorError

\* Visitor::visit_str / visit_borrowed_str of the target's visitor
VisitStr(visitor, b) ==
    CASE visitor.k \in {"string", "identifier"} -> Visited(StrV(b))
      [] visitor.k = "ignored" -> Visited(IgnoredV)
      [] OTHER -> VisitorError

\* Visitor::visit_borrowed_str of the target's visitor: &str takes the borrowed
\* text, every other visitor forwards to visit_str
VisitBorrowedStr(visitor, b) ==
    CASE visitor.k = "str" -> Visited(StrV(b))
      [] OTHER -> VisitStr(visitor, b)

\* parse_ident(ident, visitor.visit_..())? : the visitor is asked before the
\* identifier is folded, and its answer is returned when the identifier matches
IdentThenVisit(t, ident, visited) ==
    IF visited.k # "ok" THEN Custom(t)
    ELSE ParseIdent(t, ident, visited.v)

(***************************************************************************)
(* The Deserializer.                                                       *)
(***************************************************************************)
RECURSIVE Deserialize(_, _)
RECURSIVE DeserializeAny(_, _)
RECURSIVE DeserializeOption(_, _)
RECURSIVE DeserializeSeq(_, _)
RECURSIVE DeserializeMap(_, _)
RECURSIVE DeserializeStruct(_, _)
RECURSIVE DeserializeIgnoredAny(_, _)
RECURSIVE VisitSeq(_, _)
RECURSIVE VisitMap(_, _)
RECURSIVE NextElementSeed(_, _)
RECURSIVE NextKeySeed(_, _)
RECURSIVE NextValueSeed(_, _)
RECURSIVE VecVisitSeq(_, _, _)
RECURSIVE MapVisitMap(_, _, _, _)
RECURSIVE StructVisitSeq(_, _, _, _)
RECURSIVE StructVisitMap(_, _, _)

\* Deserializer::finish
Finish(t) ==
    The({IF r.item.k = "none" THEN Ok(r.t, UnitV)
         ELSE Err(r.t, SyntaxAt("ExpectedEof", r.item))
         : r \in {EatWhitespace(t)}})

\* deserialize_bool
DeserializeBool(t, visitor) ==
    The({IF r.item.k = "none" THEN Err(r.t, SyntaxEof("EofWhileStartParsingBool"))
         ELSE IF r.item.c = 116 THEN IdentThenVisit(r.t, Str_true, VisitBool(visitor, TRUE))
         ELSE IF r.item.c = 102 THEN IdentThenVisit(r.t, Str_false, VisitBool(visitor, FALSE))
         ELSE Err(r.t, SyntaxAt("UnexpectedTokenWhileParsingBool", r.item))
         : r \in {SkipWhitespace(t)}})

\* deserialize_unit
DeserializeUnit(t, visitor) ==
    The({IF r.item.k = "none" THEN Err(r.t, SyntaxEof("EofWhileStartParsingNull"))
         ELSE IF r.item.c = 110 THEN IdentThenVisit(r.t, Str_null, VisitUnit(visitor))
         ELSE Err(r.t, SyntaxAt("UnexpectedTokenWhileParsingNull", r.item))
         : r \in {SkipWhitespace(t)}})

\* value::string::StringValue of the literal parse_string read between the
\* cursors from and to: Borrowed when no escape sequence occurred in it (every
\* byte between the quotes was copied verbatim), Owned otherwise
StringValue(src, from, to) ==
    IF \E i \in from..(to - 1) : src[i] = BACKSLASH THEN "Owned" ELSE "Borrowed"

\* deserialize_str: StringValue::Borrowed(s) => visitor.visit_borrowed_str(s),
\* StringValue::Owned(s) => visitor.visit_str(&s)
DeserializeStr(t, visitor) ==
    The({IF r.item.k = "none" THEN Err(r.t, SyntaxEof("EofWhileStartParsingString"))
         ELSE IF r.item.c # QUOTE
         THEN Err(r.t, SyntaxAt("UnexpectedTokenWhileStartParsingString", r.item))
         ELSE The({IF s.k # "ok" THEN s
                   ELSE The({IF v.k # "ok" THEN Custom(s.t) ELSE Ok(s.t, v.v)
                             : v \in {IF StringValue(t.src, Cursor(r.t), Cursor(s.t))
                                          = "Borrowed"
                                      THEN VisitBorrowedStr(visitor, s.v.v)
                                      ELSE VisitStr(visitor, s.v.v)}})
                   : s \in {ParseString(r.t)}})
         : r \in {SkipWhitespace(t)}})

\* deserialize_any
DeserializeAny(t, visitor) ==
    The({IF r.item.k = "none" THEN Err(r.t, SyntaxEof("EofWhileStartParsingValue"))
         ELSE CASE r.item.c = 110 -> DeserializeUnit(r.t, visitor)
                [] r.item.c \in {102, 116} -> DeserializeBool(r.t, visitor)
                [] r.item.c = MINUS \/ IsDigit(r.item.c) ->
                       Panic(r.t, "todo: u64, i64, f64 and so on...")
                [] r.item.c = QUOTE -> DeserializeStr(r.t, visitor)
                [] r.item.c = LBRACKET -> DeserializeSeq(r.t, visitor)
                [] r.item.c = LBRACE -> DeserializeMap(r.t, visitor)
                [] OTHER -> Err(r.t, SyntaxAt("UnexpectedTokenWhileParsingValue", r.item))
         : r \in {SkipWhitespace(t)}})

\* deserialize_option; visit_some of an Option (or IgnoredAny) visitor
\* deserializes the inner type from the same deserializer
DeserializeOption(t, visitor) ==
    The({IF r.item.k = "none" THEN Err(r.t, SyntaxEof("EofWhileStartParsingValue"))
         ELSE IF r.item.c = 110 THEN IdentThenVisit(r.t, Str_null, VisitUnit(visitor))
         ELSE CASE visitor.k = "option" ->
                       The({IF i.k # "ok" THEN i ELSE Ok(i.t, PresentV(i.v))
                            : i \in {Deserialize(r.t, visitor.e)}})
                [] visitor.k = "ignored" -> Deserialize(r.t, IgnoredT)
                [] OTHER -> Custom(r.t)
         : r \in {SkipWhitespace(t)}})

\* deserialize_seq
DeserializeSeq(t, visitor) ==
    The({IF r.item.k = "none" THEN Err(r.t, SyntaxEof("EofWhileStartParsingArray"))
         ELSE IF r.item.c # LBRACKET
         THEN Err(r.t, SyntaxAt("UnexpectedTokenWhileStartParsingArray", r.item))
         ELSE The({IF seq.k # "ok" THEN seq
                   ELSE The({IF e.item.k = "none"
                             THEN Err(e.t, SyntaxEof("EofWhileEndParsingArray"))
                             ELSE IF e.item.c = RBRACKET THEN Ok(e.t, seq.v)
                             ELSE Err(e.t, SyntaxAt("UnexpectedTokenWhileEndParsingArray",
                                                    e.item))
                             : e \in {EatWhitespace(seq.t)}})
                   : seq \in {VisitSeq(visitor, r.t)}})
         : r \in {EatWhitespace(t)}})

\* deserialize_map
DeserializeMap(t, visitor) ==
    The({IF r.item.k = "none" THEN Err(r.t, SyntaxEof("EofWhileStartParsingObject"))
         ELSE IF r.item.c # LBRACE
         THEN Err(r.t, SyntaxAt("UnexpectedTokenWhileStartParsingObject", r.item))
         ELSE The({IF object.k # "ok" THEN object
                   ELSE The({IF e.item.k = "none"
                             THEN Err(e.t, SyntaxEof("EofWhileEndParsingObject"))
                             ELSE IF e.item.c = RBRACE THEN Ok(e.t, object.v)
                             ELSE Err(e.t, SyntaxAt("UnexpectedTokenWhileEndParsingObject",
                                                    e.item))
                             : e \in {EatWhitespace(object.t)}})
                   : object \in {VisitMap(visitor, r.t)}})
         : r \in {EatWhitespace(t)}})

\* deserialize_struct
DeserializeStruct(t, visitor) ==
    The({IF r.item.k = "none" THEN Err(r.t, SyntaxEof("EofWhileStartParsingValue"))
         ELSE IF r.item.c = LBRACE THEN DeserializeMap(r.t, visitor)
         ELSE IF r.item.c = LBRACKET THEN DeserializeSeq(r.t, visitor)
         ELSE Err(r.t, SyntaxAt("UnexpectedTokenWhileStartParsingObject", r.item))
         : r \in {SkipWhitespace(t)}})

\* deserialize_ignored_any
DeserializeIgnoredAny(t, visitor) ==
    The({IF r.k # "ok" THEN r
         ELSE The({IF v.k # "ok" THEN Custom(r.t) ELSE Ok(r.t, v.v)
                   : v \in {VisitUnit(visitor)}})
         : r \in {DeserializeAny(t, IgnoredT)}})

\* Option::Some of a deserialized element or key: .map(Some)
MapSome(d) == IF d.k # "ok" THEN d ELSE Ok(d.t, Elem(d.v))

\* next_element_seed of strict JSON: a comma has to be followed by an element
NextElementSeedStrict(t, seed) ==
    The({IF r.item.k = "none" THEN Err(r.t, SyntaxEof("EofWhileStartParsingArray"))
         ELSE The({IF value.k # "ok" THEN value
                   ELSE The({IF s.item.k = "none"
                             THEN Err(s.t, SyntaxEof("EofWhileEndParsingArray"))
                             ELSE IF s.item.c = COMMA
                                  THEN IF LET n == SkipWhitespace(Eat(s.t).t).item
                                          IN  n.k = "some" /\ n.c = RBRACKET
                                       THEN Err(s.t, SyntaxAt("UnexpectedTokenWhileParsingArrayValue",
                                                              s.item))
                                       ELSE Ok(Eat(s.t).t, value.v)
                             ELSE IF s.item.c = RBRACKET THEN Ok(s.t, value.v)
                             ELSE Err(s.t, SyntaxAt("UnexpectedTokenWhileParsingArrayValue",
                                                    s.item))
                             : s \in {SkipWhitespace(value.t)}})
                   : value \in {IF r.item.c = RBRACKET THEN Ok(r.t, End)
                                ELSE MapSome(Deserialize(r.t, seed))}})
         : r \in {SkipWhitespace(t)}})

\* next_element_seed that passes over a comma where an element has to start
NextElementSeedSkipsComma(t, seed) ==
    The({IF r.item.k = "none" THEN Err(r.t, SyntaxEof("EofWhileStartParsingArray"))
         ELSE IF r.item.c = COMMA THEN NextElementSeed(Eat(r.t).t, seed)
         ELSE The({IF value.k # "ok" THEN value
                   ELSE The({IF s.item.k = "none"
                             THEN Err(s.t, SyntaxEof("EofWhileEndParsingArray"))
                             ELSE IF s.item.c = COMMA THEN Ok(Eat(s.t).t, value.v)
                             ELSE IF s.item.c = RBRACKET THEN Ok(s.t, value.v)
                             ELSE Err(s.t, SyntaxAt("UnexpectedTokenWhileParsingArrayValue",
                                                    s.item))
                             : s \in {SkipWhitespace(value.t)}})
                   : value \in {IF r.item.c = RBRACKET THEN Ok(r.t, End)
                                ELSE MapSome(Deserialize(r.t, seed))}})
         : r \in {SkipWhitespace(t)}})

\* SeqDeserializer::next_element_seed
NextElementSeed(t, seed) ==
    The({IF r.item.k = "none" THEN Err(r.t, SyntaxEof("EofWhileStartParsingArray"))
         ELSE The({IF value.k # "ok" THEN value
                   ELSE The({IF s.item.k = "none"
                             THEN Err(s.t, SyntaxEof("EofWhileEndParsingArray"))
                             ELSE IF s.item.c = COMMA THEN Ok(Eat(s.t).t, value.v)
                             ELSE IF s.item.c = RBRACKET THEN Ok(s.t, value.v)
                             ELSE Err(s.t, SyntaxAt("UnexpectedTokenWhileParsingArrayValue",
                                                    s.item))
                             : s \in {SkipWhitespace(value.t)}})
                   : value \in {IF r.item.c = RBRACKET THEN Ok(r.t, End)
                                ELSE MapSome(Deserialize(r.t, seed))}})
         : r \in {SkipWhitespace(t)}})

\* MapDeserializer::next_key_seed
NextKeySeed(t, seed) ==
    The({IF r.item.k = "none" THEN Err(r.t, SyntaxEof("EofWhileParsingObjectKey"))
         ELSE IF r.item.c = QUOTE THEN MapSome(Deserialize(r.t, seed))
         ELSE IF r.item.c = RBRACE THEN Ok(r.t, End)
         ELSE Err(r.t, SyntaxAt("UnexpectedTokenWhileParsingObjectKey", r.item))
         : r \in {SkipWhitespace(t)}})

\* MapDeserializer::next_value_seed
NextValueSeed(t, seed) ==
    The({IF r.item.k = "none" THEN Err(r.t, SyntaxEof("EofWhileParsingObjectValue"))
         ELSE IF r.item.c # COLON
         THEN Err(r.t, SyntaxAt("UnexpectedTokenWhileStartParsingObjectValue", r.item))
         ELSE The({IF value.k # "ok" THEN value
                   ELSE The({IF s.item.k = "none"
                             THEN Err(s.t, SyntaxEof("EofWhileParsingObjectValue"))
                             ELSE IF s.item.c = COMMA THEN Ok(Eat(s.t).t, value.v)
                             ELSE IF s.item.c = RBRACE THEN Ok(s.t, value.v)
                             ELSE Err(s.t,
                                      SyntaxAt("UnexpectedTokenWhileEndParsingObjectValue",
                                               s.item))
                             : s \in {SkipWhitespace(value.t)}})
                   : value \in {Deserialize(r.t, seed)}})
         : r \in {EatWhitespace(t)}})

(***************************************************************************)
(* The visitors serde gives the target shapes (Vec<T>, HashMap<String, T>, *)
(* IgnoredAny, a derived struct), as the tests use them.                   *)
(***************************************************************************)
\* Vec<T>: while let Some(value) = seq.next_element()? { values.push(value) }
VecVisitSeq(t, elem, acc) ==
    The({IF r.k # "ok" THEN r
         ELSE IF r.v.k = "end" THEN Ok(r.t, SeqV(acc))
         ELSE VecVisitSeq(r.t, elem, Append(acc, r.v.v))
         : r \in {NextElementSeed(t, elem)}})

\* HashMap<K, V>: while let Some((key, value)) = map.next_entry()? { insert }
MapVisitMap(t, key, value, acc) ==
    The({IF kr.k # "ok" THEN kr
         ELSE IF kr.v.k = "end" THEN Ok(kr.t, MapV(acc))
         ELSE The({IF vr.k # "ok" THEN vr
                   ELSE MapVisitMap(vr.t, key, value, Append(acc, <<kr.v.v, vr.v>>))
                   : vr \in {NextValueSeed(kr.t, value)}})
         : kr \in {NextKeySeed(t, key)}})

Unset == [k |-> "unset"]

\* the field a key names in a derived struct, 0 for a key it does not declare
FieldIndex(visitor, name) ==
    IF \E i \in 1..Len(visitor.names) : visitor.names[i] = name
    THEN CHOOSE i \in 1..Len(visitor.names) : visitor.names[i] = name
    ELSE 0

\* a derived struct, after the last entry: a field never given is absent when
\* it is an Option and a missing_field error otherwise
StructBuild(t, visitor, vals) ==
    IF \E i \in 1..Len(vals) : vals[i].k = "unset" /\ visitor.tys[i].k # "option"
    THEN Custom(t)
    ELSE Ok(t, StructV([i \in 1..Len(vals) |->
                           IF vals[i].k = "unset" THEN AbsentV ELSE vals[i].v]))

\* a derived struct's visit_map: a declared key takes its field's type (twice
\* is a duplicate_field error), any other key takes IgnoredAny
StructVisitMap(t, visitor, vals) ==
    The({IF kr.k # "ok" THEN kr
         ELSE IF kr.v.k = "end" THEN StructBuild(kr.t, visitor, vals)
         ELSE The({IF f # 0 /\ vals[f].k # "unset" THEN Custom(kr.t)
                   ELSE The({IF vr.k # "ok" THEN vr
                             ELSE StructVisitMap(vr.t, visitor,
                                      IF f = 0 THEN vals
                                      ELSE [vals EXCEPT ![f] = Elem(vr.v)])
                             : vr \in {NextValueSeed(kr.t, IF f = 0 THEN IgnoredT
                                                           ELSE visitor.tys[f])}})
                   : f \in {FieldIndex(visitor, kr.v.v.v)}})
         : kr \in {NextKeySeed(t, IdentT)}})

\* a derived struct's visit_seq: the fields in order, each one element (a
\* missing one is an invalid_length error)
StructVisitSeq(t, visitor, i, acc) ==
    IF i > Len(visitor.tys) THEN Ok(t, StructV(acc))
    ELSE The({IF r.k # "ok" THEN r
              ELSE IF r.v.k = "end" THEN Custom(r.t)
              ELSE StructVisitSeq(r.t, visitor, i + 1, Append(acc, r.v.v))
              : r \in {NextElementSeed(t, visitor.tys[i])}})

\* IgnoredAny's visit_seq and visit_map drop what they read
Ignore(r) == IF r.k # "ok" THEN r ELSE Ok(r.t, IgnoredV)

\* visitor.visit_seq(SeqDeserializer::new(self))
VisitSeq(visitor, t) ==
    CASE visitor.k = "vec" -> VecVisitSeq(t, visitor.e, <<>>)
      [] visitor.k = "ignored" -> Ignore(VecVisitSeq(t, IgnoredT, <<>>))
      [] visitor.k \in {"struct", "tuple"} -> StructVisitSeq(t, visitor, 1, <<>>)
      [] OTHER -> Custom(t)

\* visitor.visit_map(MapDeserializer::new(self))
VisitMap(visitor, t) ==
    CASE visitor.k = "map" -> MapVisitMap(t, StringT, visitor.e, <<>>)
      [] visitor.k = "ignored" -> Ignore(MapVisitMap(t, IgnoredT, IgnoredT, <<>>))
      [] visitor.k = "struct" ->
             StructVisitMap(t, visitor, [i \in 1..Len(visitor.tys) |-> Unset])
      [] OTHER -> Custom(t)

\* the variant a tag names in a derived enum, 0 for a tag it does not declare
VariantIndex(visitor, name) ==
    IF \E i \in 1..Len(visitor.variants) : visitor.variants[i].name = name
    THEN CHOOSE i \in 1..Len(visitor.variants) : visitor.variants[i].name = name
    ELSE 0

\* EnumDeserializer::variant_seed: the tag is deserialized as an identifier by
\* the derived enum's field visitor, for which an unknown tag is an
\* unknown_variant error
VariantSeed(t, visitor) ==
    The({IF key.k # "ok" THEN key
         ELSE IF VariantIndex(visitor, key.v.v) = 0 THEN Custom(key.t)
         ELSE Ok(key.t, VariantIndex(visitor, key.v.v))
         : key \in {DeserializeStr(t, IdentT)}})

\* EnumDeserializer::unit_variant
UnitVariant(t) ==
    The({IF r.item.k = "none" THEN Err(r.t, SyntaxEof("EofWhileParsingObjectValue"))
         ELSE IF r.item.c = COLON THEN Deserialize(r.t, UnitT)
         ELSE Err(r.t, SyntaxAt("UnexpectedTokenWhileStartParsingEnumValue", r.item))
         : r \in {EatWhitespace(t)}})

\* newtype_variant_seed that takes the payload without asking for the colon
NewtypeVariantSeedNoColon(t, seed) ==
    The({IF r.item.k = "none" THEN Err(r.t, SyntaxEof("EofWhileParsingObjectValue"))
         ELSE IF r.item.c = COLON THEN Deserialize(Eat(r.t).t, seed)
         ELSE Deserialize(r.t, seed)
         : r \in {SkipWhitespace(t)}})

\* EnumDeserializer::newtype_variant_seed
NewtypeVariantSeed(t, seed) ==
    The({IF r.item.k = "none" THEN Err(r.t, SyntaxEof("EofWhileParsingObjectValue"))
         ELSE IF r.item.c = COLON THEN Deserialize(r.t, seed)
         ELSE Err(r.t, SyntaxAt("UnexpectedTokenWhileStartParsingEnumValue", r.item))
         : r \in {EatWhitespace(t)}})

\* EnumDeserializer::tuple_variant
TupleVariant(t, visitor) ==
    The({IF r.item.k = "none" THEN Err(r.t, SyntaxEof("EofWhileParsingObjectValue"))
         ELSE IF r.item.c = COLON THEN DeserializeSeq(r.t, visitor)
         ELSE Err(r.t, SyntaxAt("UnexpectedTokenWhileStartParsingEnumValue", r.item))
         : r \in {EatWhitespace(t)}})

\* EnumDeserializer::struct_variant
StructVariant(t, visitor) ==
    The({IF r.item.k = "none" THEN Err(r.t, SyntaxEof("EofWhileParsingObjectValue"))
         ELSE IF r.item.c = COLON THEN DeserializeStruct(r.t, visitor)
         ELSE Err(r.t, SyntaxAt("UnexpectedTokenWhileStartParsingEnumValue", r.item))
         : r \in {EatWhitespace(t)}})

\* the payload of a variant, by the form the enum declares for it
VariantPayload(t, variant) ==
    CASE variant.form = "unit" -> UnitVariant(t)
      [] variant.form = "newtype" -> NewtypeVariantSeed(t, variant.ty)
      [] variant.form = "tuple" -> TupleVariant(t, variant.ty)
      [] variant.form = "struct" -> StructVariant(t, variant.ty)

\* the variant of a payload
MapVariant(p, name) == IF p.k # "ok" THEN p ELSE Ok(p.t, VariantV(name, p.v))

\* a derived enum's visit_enum: match data.variant()? { (field, variant) => .. }
VisitEnum(visitor, t) ==
    The({IF tag.k # "ok" THEN tag
         ELSE MapVariant(VariantPayload(tag.t, visitor.variants[tag.v]),
                         visitor.variants[tag.v].name)
         : tag \in {VariantSeed(t, visitor)}})

\* deserialize_enum
DeserializeEnum(t, visitor) ==
    The({IF r.item.k = "none" THEN Err(r.t, SyntaxEof("EofWhileStartParsingEnum"))
         ELSE IF r.item.c # LBRACE
         THEN Err(r.t, SyntaxAt("UnexpectedTokenWhileStartParsingEnum", r.item))
         ELSE The({IF value.k # "ok" THEN value
                   ELSE The({IF e.item.k = "none"
                             THEN Err(e.t, SyntaxEof("EofWhileEndParsingEnum"))
                             ELSE IF e.item.c = RBRACE THEN Ok(e.t, value.v)
                             ELSE Err(e.t, SyntaxAt("UnexpectedTokenWhileEndParsingEnum",
                                                    e.item))
                             : e \in {EatWhitespace(value.t)}})
                   : value \in {VisitEnum(visitor, r.t)}})
         : r \in {EatWhitespace(t)}})

\* T::deserialize(&mut deserializer): the method each target shape calls
Deserialize(t, shape) ==
    CASE shape.k = "bool" -> DeserializeBool(t, shape)
      [] shape.k = "unit" -> DeserializeUnit(t, shape)
      [] shape.k \in {"string", "str", "identifier"} -> DeserializeStr(t, shape)
      [] shape.k = "ignored" -> DeserializeIgnoredAny(t, shape)
      [] shape.k = "option" -> DeserializeOption(t, shape)
      [] shape.k = "vec" -> DeserializeSeq(t, shape)
      [] shape.k = "map" -> DeserializeMap(t, shape)
      [] shape.k = "struct" -> DeserializeStruct(t, shape)
      [] shape.k = "enum" -> DeserializeEnum(t, shape)

(***************************************************************************)
(* Inputs: a text is a sequence of lexemes, flattened to its bytes.        *)
(***************************************************************************)
SeqsUpTo(S, n) == UNION {[1..m -> S] : m \in 0..n}

RECURSIVE Flatten(_)
Flatten(ss) == IF ss = <<>> THEN <<>> ELSE Head(ss) \o Flatten(Tail(ss))

Texts(lexemes, n) == {Flatten(ls) : ls \in SeqsUpTo(lexemes, n)}

BuildOutcomes == {"transmute", "abort"}

(***************************************************************************)
(* State and actions.                                                      *)
(*   tokenizer  the Tokenizer the Deserializer owns                        *)
(*   ret        what the last operation returned (and which it was)        *)
(*   pc         "new", then "value" once the target's deserialize returned *)
(*              Ok, "done" once finish returned Ok, "failed" on an error   *)
(*              or a panic, "returned" after a direct Tokenizer routine    *)
(*   builder    a NumberBuilder                                            *)
(*   ub         what the build makes of char::from_u32_unchecked on a code *)
(*              that is no scalar value                                    *)
(***************************************************************************)
\* the record of a call: the operation, its argument, the cursor it started
\* from, and what it returned
Returned(op, target, r) ==
    [op |-> op, target |-> target, from |-> Cursor(tokenizer),
     k |-> r.k, v |-> r.v, e |-> r.e]

\* the record of a cursor operation: the operation, the one called before it,
\* the cursor it started from, and the item it handed out
Handed(op, r) ==
    [op |-> op, prev |-> ret.op, from |-> Cursor(tokenizer), item |-> r.item]

InitOn(texts) ==
    /\ tokenizer \in {NewTokenizer(src) : src \in texts}
    /\ ret = [op |-> "new"]
    /\ pc = "new"
    /\ ub \in BuildOutcomes
    /\ builder = NewBuilder

\* from_str: T::deserialize(&mut de)
DoDeserialize(target) ==
    /\ pc = "new"
    /\ \E r \in {Deserialize(tokenizer, target)} :
           /\ tokenizer' = r.t
           /\ ret' = Returned("deserialize", target, r)
           /\ pc' = IF r.k = "ok" THEN "value" ELSE "failed"
    /\ UNCHANGED <<ub, builder>>

\* from_str: de.finish(), then the value is returned
DoFinish ==
    /\ pc = "value"
    /\ \E r \in {Finish(tokenizer)} :
           /\ tokenizer' = r.t
           /\ ret' = Returned("finish", ret.target,
                              [k |-> r.k, v |-> IF r.k = "ok" THEN ret.v ELSE NoVal,
                               e |-> r.e])
           /\ pc' = IF r.k = "ok" THEN "done" ELSE "failed"
    /\ UNCHANGED <<ub, builder>>

DoEat ==
    /\ pc = "new"
    /\ \E r \in {Eat(tokenizer)} :
           /\ tokenizer' = r.t
           /\ ret' = Handed("eat", r)
    /\ UNCHANGED <<pc, ub, builder>>

DoFind ==
    /\ pc = "new"
    /\ \E r \in {Find(tokenizer)} :
           /\ tokenizer' = r.t
           /\ ret' = Handed("find", r)
    /\ UNCHANGED <<pc, ub, builder>>

DoEatWhitespace ==
    /\ pc = "new"
    /\ \E r \in {EatWhitespace(tokenizer)} :
           /\ tokenizer' = r.t
           /\ ret' = Handed("eat_whitespace", r)
    /\ UNCHANGED <<pc, ub, builder>>

DoSkipWhitespace ==
    /\ pc = "new"
    /\ \E r \in {SkipWhitespace(tokenizer)} :
           /\ tokenizer' = r.t
           /\ ret' = Handed("skip_whitespace", r)
    /\ UNCHANGED <<pc, ub, builder>>

DoParseString ==
    /\ pc = "new"
    /\ \E r \in {ParseString(tokenizer)} :
           /\ tokenizer' = r.t
           /\ ret' = Returned("parse_string", StringT, r)
           /\ pc' = "returned"
    /\ UNCHANGED <<ub, builder>>

\* SeqDeserializer::next_element_seed, called by a visitor as long as no call
\* has failed
DoNextElementSeed(seed) ==
    /\ pc = "new"
    /\ \E r \in {NextElementSeed(tokenizer, seed)} :
           /\ tokenizer' = r.t
           /\ ret' = Returned("next_element_seed", seed, r)
           /\ pc' = IF r.k = "ok" THEN "new" ELSE "failed"
    /\ UNCHANGED <<ub, builder>>

\* MapDeserializer::next_key_seed
DoNextKeySeed(seed) ==
    /\ pc = "new"
    /\ \E r \in {NextKeySeed(tokenizer, seed)} :
           /\ tokenizer' = r.t
           /\ ret' = Returned("next_key_seed", seed, r)
           /\ pc' = IF r.k = "ok" THEN "new" ELSE "failed"
    /\ UNCHANGED <<ub, builder>>

\* MapDeserializer::next_value_seed
DoNextValueSeed(seed) ==
    /\ pc = "new"
    /\ \E r \in {NextValueSeed(tokenizer, seed)} :
           /\ tokenizer' = r.t
           /\ ret' = Returned("next_value_seed", seed, r)
           /\ pc' = IF r.k = "ok" THEN "new" ELSE "failed"
    /\ UNCHANGED <<ub, builder>>

\* Tokenizer::parse_ident(ident, ()) called on a fresh Tokenizer
DoParseIdent(ident) ==
    /\ pc = "new"
    /\ \E r \in {ParseIdent(tokenizer, ident, UnitV)} :
           /\ tokenizer' = r.t
           /\ ret' = Returned("parse_ident", ident, r)
           /\ pc' = "returned"
    /\ UNCHANGED <<ub, builder>>

\* the calls on a NumberBuilder, at most MaxCalls of them before build
DoPush(c) ==
    /\ pc = "new"
    /\ Len(builder.calls) < MaxCalls
    /\ builder' = Push(builder, c)
    /\ ret' = [op |-> "push"]
    /\ UNCHANGED <<tokenizer, pc, ub>>

DoExtendFromSlice(slice) ==
    /\ pc = "new"
    /\ Len(builder.calls) < MaxCalls
    /\ builder' = ExtendFromSlice(builder, slice)
    /\ ret' = [op |-> "extend_from_slice"]
    /\ UNCHANGED <<tokenizer, pc, ub>>

DoVisitFractionDot(dot) ==
    /\ pc = "new"
    /\ Len(builder.calls) < MaxCalls
    /\ builder' = VisitFractionDot(builder, dot)
    /\ ret' = [op |-> "visit_fraction_dot"]
    /\ UNCHANGED <<tokenizer, pc, ub>>

DoVisitExponentE(exp) ==
    /\ pc = "new"
    /\ Len(builder.calls) < MaxCalls
    /\ builder' = VisitExponentE(builder, exp)
    /\ ret' = [op |-> "visit_exponent_e"]
    /\ UNCHANGED <<tokenizer, pc, ub>>

\* build consumes the builder
DoBuild ==
    /\ pc = "new"
    /\ ret' = [op |-> "build", r |-> Build(builder)]
    /\ pc' = "returned"
    /\ UNCHANGED <<tokenizer, ub, builder>>

\* the record of a loop that is running: its name, the cursor it started
\* from, how many iterations it has made, what it carries from one to the next
Running(loop, from, n, st) == [op |-> loop, from |-> from, iterations |-> n, st |-> st]

\* a call of eat_whitespace, skip_whitespace or parse_string_content (with an
\* empty buffer), up to the first test of its while let
DoEnterLoop(loop) ==
    /\ pc = "new"
    /\ pc' = loop
    /\ ret' = Running(loop, Cursor(tokenizer), 0, [buff |-> <<>>])
    /\ UNCHANGED <<tokenizer, ub, builder>>

\* a call of fold_token with the closure of parse_ident: skip_whitespace, then
\* the first test of its while let
DoEnterFoldToken(ident) ==
    /\ pc = "new"
    /\ \E s \in {SkipWhitespace(tokenizer)} :
           /\ tokenizer' = s.t
           /\ IF s.item.k = "none"
              THEN /\ pc' = "returned"
                   /\ ret' = [Running("fold_token", Cursor(tokenizer), 0, [buff |-> <<>>])
                                 EXCEPT !.op = "returned"]
                              @@ [loop |-> "fold_token", k |-> "err", v |-> NoVal,
                                  e |-> SyntaxEof("EofWhileParsingIdent")]
              ELSE /\ pc' = "fold_token"
                   /\ ret' = Running("fold_token", Cursor(tokenizer), 0,
                                     [ident |-> ident, start |-> s.item.pos,
                                      end |-> s.item.pos, buff |-> <<>>])
    /\ UNCHANGED <<ub, builder>>

\* one iteration of the loop that is running
DoIteration ==
    /\ pc \in {"eat_whitespace", "skip_whitespace", "fold_token", "parse_string_content"}
    /\ \E r \in {Iteration(pc, tokenizer, ret.st)} :
           /\ tokenizer' = r.t
           /\ IF r.exit
              THEN /\ pc' = "returned"
                   /\ ret' = [Running(pc, ret.from, ret.iterations + 1, r.st)
                                 EXCEPT !.op = "returned"]
                              @@ [loop |-> pc, k |-> r.k, v |-> r.v, e |-> r.e]
              ELSE /\ pc' = pc
                   /\ ret' = Running(pc, ret.from, ret.iterations + 1, r.st)
    /\ UNCHANGED <<ub, builder>>

(***************************************************************************)
(* Spec: a parse of a short text for one of the target shapes.             *)
(***************************************************************************)
MaxTokens == 3

Lexemes ==
    {<<LBRACKET>>, <<RBRACKET>>, <<LBRACE>>, <<RBRACE>>, <<COMMA>>, <<COLON>>,
     <<SPACE>>, <<LF>>, <<MINUS>>, <<49>>, Str_true, Str_null,
     <<QUOTE, 97, QUOTE>>, <<SLASH, STAR, 99, STAR, SLASH>>}

\* struct Setting { b: Option<bool> }
Setting == StructT(<<(<<98>>)>>, <<OptionT(BoolT)>>)

Targets ==
    {BoolT, UnitT, StringT, IgnoredT, OptionT(BoolT), VecT(BoolT), MapT(BoolT),
     Setting}

Init == InitOn(Texts(Lexemes, MaxTokens))

Next ==
    \/ \E target \in Targets : DoDeserialize(target)
    \/ DoFinish

Spec == Init /\ [][Next]_vars

(***************************************************************************)
(* SpecTok: the Tokenizer's cursor operations on arbitrary short byte      *)
(* sequences.                                                              *)
(***************************************************************************)
TokBytes == {SPACE, LF, SLASH, STAR, 97}

InitTok == InitOn(SeqsUpTo(TokBytes, MaxLen))

NextTok ==
    \/ DoEat
    \/ DoFind
    \/ DoEatWhitespace
    \/ DoSkipWhitespace

SpecTok == InitTok /\ [][NextTok]_vars

(***************************************************************************)
(* Claims.                                                                 *)
(***************************************************************************)
Src == tokenizer.src

\* the position of the byte at index i of s, counted from the text alone:
\* the row is the number of line feeds before it, the column the distance
\* from the last of them
RowOf(s, i) == Cardinality({j \in 1..(i - 1) : s[j] = LF})
ColOf(s, i) ==
    LET lfs == {j \in 1..(i - 1) : s[j] = LF}
    IN  IF lfs = {} THEN i - 1
        ELSE i - 1 - (CHOOSE j \in lfs : \A m \in lfs : m <= j)
PosOf(s, i) == <<RowOf(s, i), ColOf(s, i)>>

PosLeq(p, q) == p[1] < q[1] \/ (p[1] = q[1] /\ p[2] <= q[2])

\* the end of a comment that opens at index i of s (the index after it), or 0
\* when no comment opens there: // runs to the end of the line (or of the
\* text), /* runs to the next */ and is no comment when never closed
CommentEnd(s, i) ==
    IF i + 1 > Len(s) \/ s[i] # SLASH THEN 0
    ELSE IF s[i + 1] = SLASH
         THEN IF \E j \in (i + 2)..Len(s) : s[j] = LF
              THEN 1 + CHOOSE j \in (i + 2)..Len(s) :
                           s[j] = LF /\ \A m \in (i + 2)..(j - 1) : s[m] # LF
              ELSE Len(s) + 1
    ELSE IF s[i + 1] = STAR
         THEN IF \E j \in (i + 2)..(Len(s) - 1) : s[j] = STAR /\ s[j + 1] = SLASH
              THEN 2 + CHOOSE j \in (i + 2)..(Len(s) - 1) :
                           /\ s[j] = STAR /\ s[j + 1] = SLASH
                           /\ \A m \in (i + 2)..(j - 1) :
                                  ~(s[m] = STAR /\ s[m + 1] = SLASH)
              ELSE 0
    ELSE 0

RECURSIVE SignificantFrom(_, _)
\* the index of the first significant byte of s at or after index i (a byte
\* that is neither ASCII whitespace nor part of a comment), Len(s) + 1 if none
SignificantFrom(s, i) ==
    IF i > Len(s) THEN Len(s) + 1
    ELSE IF IsAsciiWhitespace(s[i]) THEN SignificantFrom(s, i + 1)
    ELSE IF CommentEnd(s, i) > 0 THEN SignificantFrom(s, CommentEnd(s, i))
    ELSE i

RECURSIVE NonWhitespaceFrom(_, _)
\* the index of the first byte of s at or after i that is no ASCII whitespace
NonWhitespaceFrom(s, i) ==
    IF i > Len(s) THEN Len(s) + 1
    ELSE IF IsAsciiWhitespace(s[i]) THEN NonWhitespaceFrom(s, i + 1)
    ELSE i

\* what a skipping operation that starts at index i has to hand out when j is
\* the index of the byte it stops at
HandsOut(item, s, j) ==
    IF j > Len(s) THEN item.k = "none"
    ELSE item.k = "some" /\ item.c = s[j] /\ item.pos = PosOf(s, j)

\* C2: comments are insignificant: eat_whitespace and skip_whitespace, called
\* at the start of a text, pass over // and /* */ comments as over whitespace
\* and hand out the first significant byte (nothing when none is left).
CommentsAreSkipped ==
    (ret.op \in {"eat_whitespace", "skip_whitespace"} /\ ret.from = 1)
        => HandsOut(ret.item, Src, SignificantFrom(Src, 1))

\* C3: the position tracker yields the first byte at (0,0); the item after a
\* line feed at (R,C) is at (R+1,0), the item after any other byte at (R,C)
\* is at (R,C+1); the positions of the yielded bytes never decrease.
PositionAccuracy ==
    LET log == tokenizer.log
    IN  /\ Len(log) >= 1 => log[1].pos = <<0, 0>>
        /\ \A n \in 1..Len(log) : log[n].c = Src[n]
        /\ \A n \in 1..(Len(log) - 1) :
               /\ log[n].c = LF => log[n + 1].pos = <<log[n].pos[1] + 1, 0>>
               /\ log[n].c # LF =>
                      log[n + 1].pos = <<log[n].pos[1], log[n].pos[2] + 1>>
               /\ PosLeq(log[n].pos, log[n + 1].pos)

\* C3 witness: a byte, then a line feed, then a byte on the next row have
\* been eaten
PositionAccuracyWitness ==
    /\ ret.op = "eat"
    /\ Len(tokenizer.log) >= 3
    /\ tokenizer.log[1].c # LF
    /\ tokenizer.log[2].c = LF
    /\ tokenizer.log[3].pos = <<1, 0>>
    /\ ret.item.k = "some" /\ ret.item.pos = <<1, 0>>

\* C4: after the top-level value, finish succeeds if and only if only
\* insignificant bytes (whitespace, comments) or nothing remain; otherwise it
\* fails with ExpectedEof carrying the first remaining significant byte and
\* the position of that byte.
FinishRejectsOnlyGarbage ==
    ret.op = "finish" =>
        LET j == SignificantFrom(Src, ret.from)
        IN  IF j > Len(Src) THEN ret.k = "ok"
            ELSE /\ ret.k = "err"
                 /\ ret.e.kind = "ExpectedEof"
                 /\ ret.e.found = Src[j]
                 /\ ret.e.pos = PosOf(Src, j)

\* C5: every failure is an error value: a parse ends with a value or with a
\* returned error, never by a panic or an unimplemented branch.
EveryFailureIsAnError ==
    ret.op \in {"deserialize", "finish"} => ret.k \in {"ok", "err"}

StringErrors ==
    {"EofWhileEndParsingString", "EofWhileParsingEscapeSequence",
     "InvalidEscapeSequence", "InvalidUnicodeEscape",
     "ControlCharacterWhileParsingString"}

\* C6: deserialize_any decides on the next byte after the whitespace, which
\* it only peeks: n goes to unit, f or t to bool, a digit or - to number,
\* a quote to string, [ to sequence, { to map; any other byte is
\* UnexpectedTokenWhileParsingValue with that byte and its position, the end
\* of the input is EofWhileStartParsingValue.
AnyDispatch ==
    (ret.op = "deserialize" /\ ret.target = IgnoredT) =>
        LET j == NonWhitespaceFrom(Src, ret.from)
            c == Src[j]
        IN  IF j > Len(Src)
            THEN ret.k = "err" /\ ret.e.kind = "EofWhileStartParsingValue"
            ELSE CASE c = 110 ->
                          \/ ret.k = "ok"
                          \/ ret.k = "err" /\ ret.e.kind = "UnexpectedIdent"
                                           /\ ret.e.expected = Str_null
                   [] c = 116 ->
                          \/ ret.k = "ok"
                          \/ ret.k = "err" /\ ret.e.kind = "UnexpectedIdent"
                                           /\ ret.e.expected = Str_true
                   [] c = 102 ->
                          \/ ret.k = "ok"
                          \/ ret.k = "err" /\ ret.e.kind = "UnexpectedIdent"
                                           /\ ret.e.expected = Str_false
                   [] c = MINUS \/ IsDigit(c) -> ret.k \in {"ok", "err"}
                   [] c = QUOTE ->
                          \/ ret.k = "ok"
                          \/ ret.k = "err" /\ ret.e.kind \in StringErrors
                   [] c \in {LBRACKET, LBRACE} ->
                          ~(/\ ret.k = "err"
                            /\ ret.e.kind = "UnexpectedTokenWhileParsingValue"
                            /\ ret.e.pos = PosOf(Src, j))
                   [] OTHER ->
                          /\ ret.k = "err"
                          /\ ret.e.kind = "UnexpectedTokenWhileParsingValue"
                          /\ ret.e.found = c
                          /\ ret.e.pos = PosOf(Src, j)
                          /\ Cursor(tokenizer) = j

\* texts that are one syntactically valid value
ValidAtoms ==
    {<<49>>, <<MINUS, 49>>, Str_true, Str_null, <<QUOTE, 97, QUOTE>>}
ValidValues ==
    ValidAtoms
        \cup {<<LBRACKET, RBRACKET>>, <<LBRACE, RBRACE>>}
        \cup {<<LBRACKET>> \o a \o <<RBRACKET>> : a \in ValidAtoms}

\* C7: on a syntactically valid value deserialize_ignored_any consumes
\* exactly that value and returns success.
IgnoredAnySucceeds ==
    (ret.op = "deserialize" /\ ret.target = IgnoredT /\ Src \in ValidValues) =>
        ret.k = "ok" /\ Cursor(tokenizer) = Len(Src) + 1

(***************************************************************************)
(* SpecComma: an opening bracket or brace and a few lexemes after it, with  *)
(* and without commas.                                                     *)
(***************************************************************************)
MaxCommaTokens == 4

CommaLexemes ==
    {<<LBRACKET>>, <<RBRACKET>>, <<LBRACE>>, <<RBRACE>>, <<COMMA>>, <<SPACE>>,
     Str_true, <<QUOTE, 97, QUOTE, COLON>>}

CommaTargets == {VecT(BoolT), VecT(VecT(BoolT)), MapT(BoolT), IgnoredT}

\* an opening bracket or brace, then up to n lexemes
CommaTexts(n) ==
    {open \o rest : open \in {<<LBRACKET>>, <<LBRACE>>}, rest \in Texts(CommaLexemes, n)}

InitComma == InitOn(CommaTexts(MaxCommaTokens))

NextComma ==
    \/ \E target \in CommaTargets : DoDeserialize(target)
    \/ DoFinish

SpecComma == InitComma /\ [][NextComma]_vars

RECURSIVE NonWhitespaceBefore(_, _)
\* the index of the last byte of s at or before i that is no ASCII whitespace,
\* 0 when there is none
NonWhitespaceBefore(s, i) ==
    IF i < 1 THEN 0
    ELSE IF IsAsciiWhitespace(s[i]) THEN NonWhitespaceBefore(s, i - 1)
    ELSE i

\* the byte at i is one trailing comma: a comma that follows an element or an
\* entry and comes before a closing delimiter
IsTrailingComma(s, i) ==
    /\ s[i] = COMMA
    /\ LET n == NonWhitespaceFrom(s, i + 1)
       IN  n <= Len(s) /\ s[n] \in {RBRACKET, RBRACE}
    /\ LET p == NonWhitespaceBefore(s, i - 1)
       IN  p >= 1 /\ s[p] \notin {LBRACKET, LBRACE, COMMA, COLON}

\* s without its byte at i
Without(s, i) == SubSeq(s, 1, i - 1) \o SubSeq(s, i + 1, Len(s))

\* C1: a text with one trailing comma before `]` or `}` parses as the text
\* without that comma does: the target's deserialize returns the same result
\* kind and, on success, the same value (the same elements in the same order,
\* the same entries), and finish after it succeeds for the one exactly when
\* it does for the other.
TrailingCommaEquivalence ==
    \A i \in 1..Len(Src) :
        IsTrailingComma(Src, i) =>
            LET plain == Deserialize(NewTokenizer(Without(Src, i)), ret.target)
            IN  /\ ret.op = "deserialize" =>
                    /\ plain.k = ret.k
                    /\ ret.k = "ok" => plain.v = ret.v
                /\ ret.op = "finish" =>
                    /\ plain.k = "ok"
                    /\ plain.v = ret.v \/ ret.k # "ok"
                    /\ Finish(plain.t).k = ret.k

\* an array with one element and a trailing comma, and an object with one
\* entry and a trailing comma, parsed to the end
TrailingCommaWitness ==
    /\ pc = "done"
    /\ ret.op = "finish"
    /\ \E i \in 1..Len(Src) : IsTrailingComma(Src, i) /\ Src[i + 1] = RBRACE
    /\ ret.v = MapV(<<(<<StrV(<<97>>), BoolV(TRUE)>>)>>)

(***************************************************************************)
(* SpecStr: parse_string on string literals: an opening quote, a few       *)
(* chunks (plain bytes, escapes whole, cut short and malformed), a closing *)
(* quote or the end of the input;                                          *)
(* and on every literal that is one \u escape.                             *)
(***************************************************************************)
MaxChunks == 2

\* \ followed by c
Escape(c) == <<BACKSLASH, c>>

\* \u followed by four digits
UnicodeEscape(ds) == <<BACKSLASH, 117>> \o ds

HexDigits == (48..57) \cup (97..102) \cup (65..70)

StrChunks ==
    {<<97>>, <<DEL>>, <<LF>>, <<206, 181>>, <<181>>,
     Escape(QUOTE), Escape(BACKSLASH), Escape(SLASH), Escape(98), Escape(102),
     Escape(110), Escape(114), Escape(116), Escape(97),
     UnicodeEscape(<<48, 48, 48, 65>>), UnicodeEscape(<<48, 51, 98, 53>>),
     UnicodeEscape(<<68, 56, 48, 48>>), UnicodeEscape(<<48, 48, 71, 48>>),
     <<BACKSLASH>>, <<BACKSLASH, 117>>, <<BACKSLASH, 117, 48>>}

StrTexts(n) ==
    {<<QUOTE>> \o body \o end :
        body \in Texts(StrChunks, n), end \in {<<QUOTE>>, <<>>}}
    \cup {<<QUOTE>> \o UnicodeEscape(ds) \o <<QUOTE>> : ds \in [1..4 -> HexDigits]}

InitStr == InitOn(StrTexts(MaxChunks))

NextStr == DoParseString

SpecStr == InitStr /\ [][NextStr]_vars

\* a control byte: a byte below 0x20
IsControlByte(c) == c < 32

\* the byte the escape table gives for the byte after a backslash, -1 for a
\* byte that is not in the table
TableByte(c) ==
    CASE c = 34 -> 34
      [] c = 92 -> 92
      [] c = 47 -> 47
      [] c = 98 -> 8
      [] c = 102 -> 12
      [] c = 110 -> 10
      [] c = 114 -> 13
      [] c = 116 -> 9
      [] OTHER -> -1

RECURSIVE SimpleEnd(_, _)
\* the index of the closing quote of a literal whose content, from index i on,
\* is made of table escapes and unescaped non-control bytes only; 0 when the
\* content has anything else or no closing quote
SimpleEnd(s, i) ==
    IF i > Len(s) THEN 0
    ELSE IF s[i] = QUOTE THEN i
    ELSE IF s[i] = BACKSLASH
         THEN IF i + 1 <= Len(s) /\ TableByte(s[i + 1]) >= 0
              THEN SimpleEnd(s, i + 2)
              ELSE 0
    ELSE IF IsControlByte(s[i]) THEN 0
    ELSE SimpleEnd(s, i + 1)

RECURSIVE SimpleDecode(_, _)
\* what such a content decodes to: one table byte for two input bytes, any
\* other byte unchanged
SimpleDecode(s, i) ==
    IF s[i] = QUOTE THEN <<>>
    ELSE IF s[i] = BACKSLASH
         THEN <<TableByte(s[i + 1])>> \o SimpleDecode(s, i + 2)
    ELSE <<s[i]>> \o SimpleDecode(s, i + 1)

\* C8: inside a string literal each of the escapes \" \\ \/ \b \f \n \r \t
\* appends its one byte (0x22 0x5C 0x2F 0x08 0x0C 0x0A 0x0D 0x09) for the two
\* input bytes it consumes, and every unescaped non-control byte other than
\* the quote and the backslash is appended unchanged: a literal made of these
\* only is accepted, decodes to exactly those bytes, and parse_string stops
\* just past its closing quote.
EscapeTable ==
    (ret.op = "parse_string" /\ Src[1] = QUOTE /\ SimpleEnd(Src, 2) > 0) =>
        /\ ret.k = "ok"
        /\ ret.v = Bytes(SimpleDecode(Src, 2))
        /\ Cursor(tokenizer) = SimpleEnd(Src, 2) + 1

\* a literal that is one \u escape of four hex digits
IsUnicodeText(s) ==
    /\ Len(s) = 8
    /\ s[1] = QUOTE /\ s[2] = BACKSLASH /\ s[3] = 117 /\ s[8] = QUOTE
    /\ \A j \in 4..7 : s[j] \in HexDigits

\* the value of a hex digit, upper and lower case the same
DigitValue(c) ==
    IF c \in 48..57 THEN c - 48
    ELSE IF c \in 97..102 THEN c - 87
    ELSE c - 55

\* d0*4096 + d1*256 + d2*16 + d3 of the four digits of s from index i
CodePoint(s, i) ==
    DigitValue(s[i]) * 4096 + DigitValue(s[i + 1]) * 256
        + DigitValue(s[i + 2]) * 16 + DigitValue(s[i + 3])

\* the UTF-8 encoding of a code below 65536: 1 byte below 0x80, 2 bytes below
\* 0x800, otherwise 3 bytes
Utf8(code) ==
    IF code < 128 THEN <<code>>
    ELSE IF code < 2048 THEN <<192 + (code \div 64), 128 + (code % 64)>>
    ELSE <<224 + (code \div 4096), 128 + ((code \div 64) % 64), 128 + (code % 64)>>

\* C9: for every 4 hex digits after \u, parse_unicode consumes exactly those
\* 4 bytes, computes d0*4096 + d1*256 + d2*16 + d3 and appends the UTF-8
\* encoding of that code point (1, 2 or 3 bytes).
UnicodeEscapeValue ==
    (ret.op = "parse_string" /\ IsUnicodeText(Src)) =>
        /\ ret.k = "ok"
        /\ ret.v = Bytes(Utf8(CodePoint(Src, 4)))
        /\ Cursor(tokenizer) = 9

\* a continuation byte of UTF-8
IsContinuation(s, i) == i <= Len(s) /\ s[i] \in 128..191

RECURSIVE ValidUtf8From(_, _)
\* s is well-formed UTF-8 from index i on: no stray continuation byte, no
\* overlong form, no surrogate, nothing above U+10FFFF
ValidUtf8From(s, i) ==
    IF i > Len(s) THEN TRUE
    ELSE IF s[i] < 128 THEN ValidUtf8From(s, i + 1)
    ELSE IF s[i] \in 194..223
         THEN IsContinuation(s, i + 1) /\ ValidUtf8From(s, i + 2)
    ELSE IF s[i] \in 224..239
         THEN /\ IsContinuation(s, i + 1) /\ IsContinuation(s, i + 2)
              /\ s[i] = 224 => s[i + 1] >= 160
              /\ s[i] = 237 => s[i + 1] <= 159
              /\ ValidUtf8From(s, i + 3)
    ELSE IF s[i] \in 240..244
         THEN /\ IsContinuation(s, i + 1) /\ IsContinuation(s, i + 2)
              /\ IsContinuation(s, i + 3)
              /\ s[i] = 240 => s[i + 1] >= 144
              /\ s[i] = 244 => s[i + 1] <= 143
              /\ ValidUtf8From(s, i + 4)
    ELSE FALSE

\* C10: the decoded bytes of every literal that parse_string accepts and
\* whose unescaped bytes are valid UTF-8 are valid UTF-8: no \u escape
\* contributes the encoding of a surrogate.
DecodedIsValidText ==
    (ret.op = "parse_string" /\ ret.k = "ok" /\ ValidUtf8From(Src, 1)) =>
        ValidUtf8From(ret.v.v, 1)

RECURSIVE PlainRunEnd(_, _)
\* the index of the first byte of s at or after i that is neither part of a
\* table escape nor an unescaped non-control byte other than the quote and
\* the backslash (Len(s) + 1 when there is none)
PlainRunEnd(s, i) ==
    IF i > Len(s) THEN Len(s) + 1
    ELSE IF s[i] = BACKSLASH
         THEN IF i + 1 <= Len(s) /\ TableByte(s[i + 1]) >= 0
              THEN PlainRunEnd(s, i + 2)
              ELSE i
    ELSE IF s[i] = QUOTE \/ IsControlByte(s[i]) THEN i
    ELSE PlainRunEnd(s, i + 1)

\* C11: when an unescaped byte below 0x20 occurs inside a string literal
\* before its closing quote (after table escapes and plain bytes only),
\* parse_string fails with ControlCharacterWhileParsingString carrying that
\* byte and its position; and whenever parse_string returns this error, the
\* byte it carries is below 0x20.
ControlCharacterRejection ==
    (ret.op = "parse_string" /\ Src[1] = QUOTE) =>
        LET j == PlainRunEnd(Src, 2)
        IN  /\ (j <= Len(Src) /\ IsControlByte(Src[j])) =>
                   /\ ret.k = "err"
                   /\ ret.e.kind = "ControlCharacterWhileParsingString"
                   /\ ret.e.c = Src[j]
                   /\ ret.e.pos = PosOf(Src, j)
            /\ (ret.k = "err" /\ ret.e.kind = "ControlCharacterWhileParsingString") =>
                   ret.e.c < 32

(***************************************************************************)
(* SpecIdent: parse_ident on short texts of identifiers, their prefixes    *)
(* and delimiters, called directly and through a bool or a map of bool.    *)
(***************************************************************************)
MaxIdentTokens == 3

IdentLexemes ==
    {<<SPACE>>, <<LF>>, Str_true, <<116, 114, 117>>, <<116>>, <<101>>, Str_null,
     <<116, 114, 117, 101, 48, 90>>,
     <<RBRACE>>, <<COMMA>>, <<LBRACE, QUOTE, 97, QUOTE, COLON>>}

Idents == {Str_true, Str_false, Str_null}

IdentTargets == {BoolT, MapT(BoolT)}

InitIdent == InitOn(Texts(IdentLexemes, MaxIdentTokens))

NextIdent ==
    \/ \E ident \in Idents : DoParseIdent(ident)
    \/ \E target \in IdentTargets : DoDeserialize(target)
    \/ DoFinish

SpecIdent == InitIdent /\ [][NextIdent]_vars

\* a letter or a digit of ASCII
IsLetterOrDigit(c) == c \in (48..57) \cup (65..90) \cup (97..122)

RECURSIVE RunEnd(_, _, _, _)
\* the index just past the run folded for the identifier ident when the run
\* has n bytes and goes on at index i: bytes that are letters, digits or bytes
\* of ident, at most 10 of them
RunEnd(s, i, ident, n) ==
    IF i > Len(s) \/ n = 10 THEN i
    ELSE IF IsLetterOrDigit(s[i]) \/ \E m \in 1..Len(ident) : ident[m] = s[i]
         THEN RunEnd(s, i + 1, ident, n + 1)
    ELSE i

\* the run folded for ident from index j on
FoldedRun(s, j, ident) == SubSeq(s, j, RunEnd(s, j, ident, 0) - 1)

\* C12 as stated: parse_ident returns the success value if and only if the
\* greedily folded run equals the expected identifier exactly; otherwise it
\* fails with UnexpectedIdent whose found bytes are the folded run and whose
\* position is that of the first byte of the run, never that of a delimiter
\* or of the end of the input.
IdentMatchingAsStated ==
    ret.op = "parse_ident" =>
        LET j == NonWhitespaceFrom(Src, 1)
            run == FoldedRun(Src, j, ret.target)
        IN  /\ ret.k = "ok" <=> run = ret.target
            /\ ret.k # "ok" =>
                   /\ ret.k = "err"
                   /\ ret.e.kind = "UnexpectedIdent"
                   /\ ret.e.found = run
                   /\ run # <<>>
                   /\ ret.e.pos = PosOf(Src, j)

\* C12: when a byte other than whitespace is left, parse_ident returns the
\* success value if and only if the greedily folded run that starts at the
\* first such byte equals the expected identifier exactly; otherwise it fails
\* with UnexpectedIdent whose found bytes are the folded run (empty when that
\* byte is no letter, digit or byte of the identifier) and whose position is
\* that of that byte.  When only whitespace is left it fails with
\* EofWhileParsingIdent.  Through a deserialize the error is at the start of
\* the mismatching word (the byte t, f or n that was dispatched on), never at
\* an enclosing delimiter or at the end of the input.
IdentMatching ==
    /\ (ret.op = "parse_ident" /\ NonWhitespaceFrom(Src, 1) <= Len(Src)) =>
           LET j == NonWhitespaceFrom(Src, 1)
               run == FoldedRun(Src, j, ret.target)
           IN  /\ ret.k = "ok" <=> run = ret.target
               /\ ret.k = "ok" => ret.v = UnitV /\ Cursor(tokenizer) = j + Len(run)
               /\ ret.k # "ok" =>
                      /\ ret.k = "err"
                      /\ ret.e.kind = "UnexpectedIdent"
                      /\ ret.e.found = run
                      /\ ret.e.expected = ret.target
                      /\ ret.e.pos = PosOf(Src, j)
    /\ (ret.op = "parse_ident" /\ NonWhitespaceFrom(Src, 1) > Len(Src)) =>
           ret.k = "err" /\ ret.e.kind = "EofWhileParsingIdent"
    /\ (ret.op = "deserialize" /\ ret.k = "err" /\ ret.e.kind = "UnexpectedIdent") =>
           \E j \in 1..Len(Src) :
               /\ ret.e.pos = PosOf(Src, j)
               /\ Src[j] \in {116, 102, 110}
               /\ ret.e.found = FoldedRun(Src, j, ret.e.expected)
               /\ ret.e.found # ret.e.expected

\* {"a":tru} asked for a map of bool: the error is at the t of tru
IdentMatchingWitness ==
    /\ ret.op = "deserialize"
    /\ Src = <<LBRACE, QUOTE, 97, QUOTE, COLON, 116, 114, 117, RBRACE>>
    /\ ret.k = "err"
    /\ ret.e.kind = "UnexpectedIdent"
    /\ ret.e.pos = <<0, 5>>
    /\ ret.e.found = <<116, 114, 117>>

(***************************************************************************)
(* SpecEnum: an enum with a variant of each form, asked for on texts that  *)
(* start with a tag and go on with colons, payloads and delimiters.        *)
(***************************************************************************)
MaxEnumTokens == 4

\* enum Kind { W, A(bool), O(), D { d: bool } }
Kind ==
    EnumT(<<Variant(<<87>>, "unit", UnitT),
            Variant(<<65>>, "newtype", BoolT),
            Variant(<<79>>, "tuple", TupleT(<<>>)),
            Variant(<<68>>, "struct", StructT(<<(<<100>>)>>, <<BoolT>>))>>)

\* {"V" for the tag V
Tagged(c) == <<LBRACE, QUOTE, c, QUOTE>>

EnumOpeners ==
    {Tagged(87), Tagged(65), Tagged(79), Tagged(68), Tagged(88), <<LBRACE>>}

EnumLexemes ==
    {<<COLON>>, Str_null, Str_true, <<LBRACKET, RBRACKET>>, <<RBRACE>>,
     <<LBRACE, QUOTE, 100, QUOTE, COLON, 116, 114, 117, 101, RBRACE>>,
     <<SPACE>>}

EnumTexts(n) == {o \o x : o \in EnumOpeners, x \in Texts(EnumLexemes, n)}

InitEnum == InitOn(EnumTexts(MaxEnumTokens))

NextEnum ==
    \/ DoDeserialize(Kind)
    \/ DoFinish

SpecEnum == InitEnum /\ [][NextEnum]_vars

\* the bytes of s that are no whitespace
Significant(s) == SelectSeq(s, LAMBDA c : ~IsAsciiWhitespace(c))

\* the index in s of its n-th byte that is no whitespace
RECURSIVE NthSignificant(_, _, _)
NthSignificant(s, i, n) ==
    IF i > Len(s) THEN i
    ELSE IF IsAsciiWhitespace(s[i]) THEN NthSignificant(s, i + 1, n)
    ELSE IF n = 1 THEN i
    ELSE NthSignificant(s, i + 1, n - 1)

\* C13: with an enum target, {"V": null} yields the unit variant V,
\* {"V": <value>} the newtype variant V holding that value, {"V": []} the
\* zero-arity tuple variant V and {"V": {..}} the struct variant V with those
\* fields, whitespace between the tokens allowed; the tag is read as a text
\* key and a `:` is required before the payload: when another byte follows
\* the tag the result is UnexpectedTokenWhileStartParsingEnumValue with that
\* byte and its position, and a variant is returned only for a text that
\* starts with { "V" : payload }, read up to that closing brace.
EnumWireForms ==
    (ret.op = "deserialize" /\ ret.target = Kind) =>
        LET sig == Significant(Src)
            Is(text) == sig = text
            Yields(v) == ret.k = "ok" /\ ret.v = v
        IN  /\ Is(Tagged(87) \o <<COLON>> \o Str_null \o <<RBRACE>>) =>
                   Yields(VariantV(<<87>>, UnitV))
            /\ Is(Tagged(65) \o <<COLON>> \o Str_true \o <<RBRACE>>) =>
                   Yields(VariantV(<<65>>, BoolV(TRUE)))
            /\ Is(Tagged(79) \o <<COLON, LBRACKET, RBRACKET, RBRACE>>) =>
                   Yields(VariantV(<<79>>, StructV(<<>>)))
            /\ Is(Tagged(68) \o <<COLON, LBRACE, QUOTE, 100, QUOTE, COLON>> \o Str_true
                      \o <<RBRACE, RBRACE>>) =>
                   Yields(VariantV(<<68>>, StructV(<<BoolV(TRUE)>>)))
            /\ (/\ Len(sig) >= 5
                /\ \E c \in {87, 65, 79, 68} : SubSeq(sig, 1, 4) = Tagged(c)
                /\ sig[5] # COLON) =>
                   /\ ret.k = "err"
                   /\ ret.e.kind = "UnexpectedTokenWhileStartParsingEnumValue"
                   /\ ret.e.found = sig[5]
                   /\ ret.e.pos = PosOf(Src, NthSignificant(Src, 1, 5))
            /\ ret.k = "ok" =>
                   /\ ret.v.k = "variant"
                   /\ Len(sig) >= 6
                   /\ SubSeq(sig, 1, 5) = Tagged(ret.v.name[1]) \o <<COLON>>
                   /\ Src[Cursor(tokenizer) - 1] = RBRACE
                   /\ sig[6] = CASE ret.v.name = <<87>> -> 110
                                 [] ret.v.name = <<65>> -> IF ret.v.v.v THEN 116 ELSE 102
                                 [] ret.v.name = <<79>> -> LBRACKET
                                 [] ret.v.name = <<68>> ->
                                        IF sig[6] = LBRACKET THEN LBRACKET ELSE LBRACE

\* { "D" : {"d":true}} was parsed to the struct variant D
EnumWireFormsWitness ==
    /\ ret.op = "deserialize"
    /\ ret.target = Kind
    /\ ret.k = "ok"
    /\ ret.v = VariantV(<<68>>, StructV(<<BoolV(TRUE)>>))

(***************************************************************************)
(* SpecShape: each shape with a fixed set of start bytes, asked for on     *)
(* texts that start with any lexeme.                                       *)
(***************************************************************************)
ShapeTargets == {BoolT, UnitT, StringT, VecT(BoolT), MapT(BoolT), Kind}

InitShape == InitOn(Texts(Lexemes, MaxTokens))

NextShape ==
    \/ \E target \in ShapeTargets : DoDeserialize(target)
    \/ DoFinish

SpecShape == InitShape /\ [][NextShape]_vars

\* the bytes a value of the shape starts with
StartBytes(shape) ==
    CASE shape.k = "bool" -> {116, 102}
      [] shape.k = "unit" -> {110}
      [] shape.k = "string" -> {QUOTE}
      [] shape.k = "vec" -> {LBRACKET}
      [] shape.k \in {"map", "enum"} -> {LBRACE}

\* the unexpected-token error of the shape
UnexpectedToken(shape) ==
    CASE shape.k = "bool" -> "UnexpectedTokenWhileParsingBool"
      [] shape.k = "unit" -> "UnexpectedTokenWhileParsingNull"
      [] shape.k = "string" -> "UnexpectedTokenWhileStartParsingString"
      [] shape.k = "vec" -> "UnexpectedTokenWhileStartParsingArray"
      [] shape.k = "map" -> "UnexpectedTokenWhileStartParsingObject"
      [] shape.k = "enum" -> "UnexpectedTokenWhileStartParsingEnum"

\* C14: no silent coercion: when the requested shape is bool, unit, text,
\* sequence, map or enum and the next significant byte is no start byte of
\* that shape, the result is that shape's unexpected-token error with the
\* found byte and its position, never a value.
NoSilentCoercion ==
    (ret.op = "deserialize" /\ ret.target \in ShapeTargets) =>
        LET j == SignificantFrom(Src, 1)
        IN  (j <= Len(Src) /\ Src[j] \notin StartBytes(ret.target)) =>
                /\ ret.k = "err"
                /\ ret.e.kind = UnexpectedToken(ret.target)
                /\ ret.e.found = Src[j]
                /\ ret.e.pos = PosOf(Src, j)

(***************************************************************************)
(* SpecText: a borrowed and an owned text target asked for on texts made   *)
(* of quotes, plain bytes and escape sequences.                            *)
(***************************************************************************)
MaxTextTokens == 4

TextLexemes ==
    {<<QUOTE>>, <<97>>, <<SPACE>>, <<LF>>, <<BACKSLASH, 110>>, <<BACKSLASH, QUOTE>>,
     <<BACKSLASH, 117, 48, 48, 52, 49>>}

TextTargets == {StrT, StringT}

InitText == InitOn(Texts(TextLexemes, MaxTextTokens))

NextText ==
    \/ \E target \in TextTargets : DoDeserialize(target)
    \/ DoFinish

SpecText == InitText /\ [][NextText]_vars

IsHex(c) == c \in (48..57) \cup (65..70) \cup (97..102)

RECURSIVE LiteralClose(_, _)
\* the index of the quote that closes the literal whose content goes on at
\* index i of s, 0 when the literal is malformed or never closed
LiteralClose(s, i) ==
    IF i > Len(s) THEN 0
    ELSE IF s[i] = QUOTE THEN i
    ELSE IF s[i] = BACKSLASH
         THEN IF i + 1 <= Len(s) /\ TableByte(s[i + 1]) >= 0
              THEN LiteralClose(s, i + 2)
              ELSE IF /\ i + 5 <= Len(s)
                      /\ s[i + 1] = 117
                      /\ \A m \in (i + 2)..(i + 5) : IsHex(s[m])
                   THEN LiteralClose(s, i + 6)
                   ELSE 0
    ELSE IF IsControlByte(s[i]) THEN 0
    ELSE LiteralClose(s, i + 1)

\* C15: deserialize_str hands the visitor a borrowed view only when the
\* literal held no escape sequence and a transient string otherwise: a
\* borrowed-text target (&str) succeeds on an escape-free literal, with the
\* bytes between the quotes, and returns an error on every literal that holds
\* an escape; an owned-text target (String) succeeds on both.
BorrowedVersusOwned ==
    (ret.op = "deserialize" /\ ret.target \in TextTargets) =>
        LET j == NonWhitespaceFrom(Src, 1)
            close == IF j <= Len(Src) /\ Src[j] = QUOTE
                     THEN LiteralClose(Src, j + 1) ELSE 0
            escaped == \E i \in (j + 1)..(close - 1) : Src[i] = BACKSLASH
        IN  close > 0 =>
                /\ ret.target = StringT => ret.k = "ok" /\ ret.v.k = "str"
                /\ (ret.target = StrT /\ ~escaped) =>
                       ret.k = "ok" /\ ret.v = StrV(SubSeq(Src, j + 1, close - 1))
                /\ (ret.target = StrT /\ escaped) => ret.k = "err"

\* C16: with an optional target, when the next significant byte is `n` the
\* identifier null is consumed and the result is absent (a run that starts
\* with n and is not exactly null is an identifier error, not a present
\* value); for any other next byte the inner shape is parsed from that same
\* unconsumed byte, and what it yields is the present value.
OptionalDispatch ==
    (ret.op = "deserialize" /\ ret.target = OptionT(BoolT)) =>
        LET j == SignificantFrom(Src, 1)
            inner == Deserialize(NewTokenizer(Src), BoolT)
        IN  /\ (j <= Len(Src) /\ Src[j] = 110) =>
                   IF FoldedRun(Src, j, Str_null) = Str_null
                   THEN ret.k = "ok" /\ ret.v = AbsentV /\ Cursor(tokenizer) = j + 4
                   ELSE /\ ret.k = "err"
                        /\ ret.e.kind = "UnexpectedIdent"
                        /\ ret.e.pos = PosOf(Src, j)
            /\ (j <= Len(Src) /\ Src[j] # 110) =>
                   /\ ret.k = inner.k
                   /\ ret.k = "ok" => ret.v = PresentV(inner.v)
                   /\ ret.k = "err" => ret.e = inner.e
                   /\ tokenizer = inner.t

\* C17: find is non-destructive: consecutive finds hand out the same position
\* and byte and leave the cursor where it was, and the eat that follows hands
\* out exactly that position and byte and advances by one byte; at the end of
\* the input both hand out nothing, repeatedly.
PeekIsNonDestructive ==
    [][/\ ret'.op = "find" =>
              /\ Cursor(tokenizer') = Cursor(tokenizer)
              /\ HandsOut(ret'.item, Src, Cursor(tokenizer))
       /\ (ret.op = "find" /\ ret'.op = "find") => ret'.item = ret.item
       /\ (ret.op = "find" /\ ret'.op = "eat") =>
              /\ ret'.item = ret.item
              /\ ret.item.k = "some" => Cursor(tokenizer') = Cursor(tokenizer) + 1
       /\ (ret'.op \in {"find", "eat"} /\ Cursor(tokenizer) > Len(Src)) =>
              /\ ret'.item.k = "none"
              /\ Cursor(tokenizer') = Cursor(tokenizer)]_vars

\* an eat handed out the second byte right after a find had shown it
PeekIsNonDestructiveWitness ==
    /\ ret.op = "eat"
    /\ ret.prev = "find"
    /\ ret.from = 2
    /\ ret.item.k = "some"
    /\ ret.item.c = Src[2]
    /\ Cursor(tokenizer) = 3

\* C18: eat_whitespace and skip_whitespace both hand out the first byte that
\* is no whitespace, with its position, or nothing at the end of the input;
\* after eat_whitespace that byte is consumed (the next find shows the byte
\* after it), after skip_whitespace the cursor is right before it (the next
\* find and eat hand out that same byte), and a second skip_whitespace hands
\* out the same without consuming anything.
SkipVersusEat ==
    [][LET j == NonWhitespaceFrom(Src, Cursor(tokenizer))
       IN  /\ ret'.op \in {"eat_whitespace", "skip_whitespace"} =>
                  HandsOut(ret'.item, Src, j)
           /\ ret'.op = "eat_whitespace" =>
                  Cursor(tokenizer') = IF j > Len(Src) THEN j ELSE j + 1
           /\ ret'.op = "skip_whitespace" => Cursor(tokenizer') = j
           /\ (ret.op = "eat_whitespace" /\ ret.item.k = "some" /\ ret'.op = "find") =>
                  HandsOut(ret'.item, Src,
                           1 + CHOOSE i \in 1..Len(Src) : PosOf(Src, i) = ret.item.pos)
           /\ (ret.op = "skip_whitespace"
                 /\ ret'.op \in {"find", "eat", "skip_whitespace"}) =>
                  ret'.item = ret.item
           /\ (ret.op = "skip_whitespace" /\ ret'.op = "skip_whitespace") =>
                  Cursor(tokenizer') = Cursor(tokenizer)]_vars

\* a second skip_whitespace handed out the byte after the whitespace again
SkipVersusEatWitness ==
    /\ ret.op = "skip_whitespace"
    /\ ret.prev = "skip_whitespace"
    /\ ret.from > 1
    /\ ret.item.k = "some"
    /\ IsAsciiWhitespace(Src[1])
    /\ Cursor(tokenizer) = ret.from

(***************************************************************************)
(* SpecAccess: the calls a visitor makes on the sequence and map adapters, *)
(* in any order, and whole parses of an array and an object.               *)
(***************************************************************************)
MaxAccessTokens == 4

AccessLexemes ==
    {<<LBRACKET>>, <<RBRACKET>>, <<RBRACE>>, <<COMMA>>, <<COLON>>, <<SPACE>>, <<49>>,
     Str_true, <<QUOTE, 97, QUOTE>>, <<SLASH, STAR, 99, STAR, SLASH>>}

InitAccess == InitOn(Texts(AccessLexemes, MaxAccessTokens))

NextAccess ==
    \/ DoNextElementSeed(BoolT)
    \/ DoNextKeySeed(StringT)
    \/ DoNextValueSeed(BoolT)
    \/ DoDeserialize(VecT(BoolT))
    \/ DoFinish

SpecAccess == InitAccess /\ [][NextAccess]_vars

\* C19: a next-element call that sees `]` as the next significant byte
\* signals the end without consuming it, so that repeated calls keep
\* signalling the end and consume nothing; otherwise it parses one element and
\* then requires the next significant byte to be `,` (consumed) or `]`
\* (left), any other byte giving UnexpectedTokenWhileParsingArrayValue with
\* that byte and its position; the `]` is consumed exactly once, by
\* deserialize_seq after the visitor has returned.
SeqAdapterProtocol ==
    [][LET j == SignificantFrom(Src, Cursor(tokenizer))
           inner == Deserialize(tokenizer, BoolT)
           m == SignificantFrom(Src, Cursor(inner.t))
       IN  /\ (ret'.op = "next_element_seed" /\ j <= Len(Src) /\ Src[j] = RBRACKET) =>
                  /\ ret'.k = "ok"
                  /\ ret'.v = End
                  /\ Cursor(tokenizer') = j
           /\ (ret'.op = "next_element_seed" /\ j <= Len(Src) /\ Src[j] # RBRACKET) =>
                  IF inner.k # "ok" THEN ret'.k = inner.k /\ ret'.e = inner.e
                  ELSE IF m > Len(Src) THEN ret'.k = "err"
                  ELSE IF Src[m] = COMMA
                  THEN /\ ret'.k = "ok"
                       /\ ret'.v = Elem(inner.v)
                       /\ Cursor(tokenizer') = m + 1
                  ELSE IF Src[m] = RBRACKET
                  THEN /\ ret'.k = "ok"
                       /\ ret'.v = Elem(inner.v)
                       /\ Cursor(tokenizer') = m
                  ELSE /\ ret'.k = "err"
                       /\ ret'.e.kind = "UnexpectedTokenWhileParsingArrayValue"
                       /\ ret'.e.found = Src[m]
                       /\ ret'.e.pos = PosOf(Src, m)
           /\ (ret'.op = "deserialize" /\ ret'.k = "ok") =>
                  /\ Src[Cursor(tokenizer') - 1] = RBRACKET
                  /\ \A i \in ret'.from..(Cursor(tokenizer') - 2) : Src[i] # RBRACKET]_vars

\* C20: a next-key call parses a key only when the next significant byte is
\* `"`, signals the end without consuming it when that byte is `}`, and for
\* any other byte fails with UnexpectedTokenWhileParsingObjectKey with the byte
\* and its position; the next-value call requires `:` before the value and
\* fails with UnexpectedTokenWhileStartParsingObjectValue otherwise.
MapKeyRule ==
    [][LET j == SignificantFrom(Src, Cursor(tokenizer))
           key == Deserialize(tokenizer, StringT)
       IN  /\ (ret'.op = "next_key_seed" /\ j <= Len(Src)) =>
                  CASE Src[j] = QUOTE ->
                           /\ ret'.k = key.k
                           /\ ret'.k = "ok" => ret'.v = Elem(key.v) /\ tokenizer' = key.t
                           /\ ret'.k = "err" => ret'.e = key.e
                    [] Src[j] = RBRACE ->
                           /\ ret'.k = "ok"
                           /\ ret'.v = End
                           /\ Cursor(tokenizer') = j
                    [] OTHER ->
                           /\ ret'.k = "err"
                           /\ ret'.e.kind = "UnexpectedTokenWhileParsingObjectKey"
                           /\ ret'.e.found = Src[j]
                           /\ ret'.e.pos = PosOf(Src, j)
           /\ (ret'.op = "next_value_seed" /\ j <= Len(Src) /\ Src[j] # COLON) =>
                  /\ ret'.k = "err"
                  /\ ret'.e.kind = "UnexpectedTokenWhileStartParsingObjectValue"
                  /\ ret'.e.found = Src[j]
                  /\ ret'.e.pos = PosOf(Src, j)
           /\ (ret'.op = "next_value_seed" /\ ret'.k = "ok") =>
                  j <= Len(Src) /\ Src[j] = COLON]_vars

(***************************************************************************)
(* SpecEnumEnd: what follows the payload of a unit or a newtype variant.   *)
(***************************************************************************)
EnumEndLexemes ==
    {<<COLON>>, Str_null, Str_true, <<RBRACE>>, <<COMMA>>, <<SPACE>>,
     <<SLASH, STAR, 99, STAR, SLASH>>}

\* the texts start with {"W" or {"A"
InitEnumEnd ==
    InitOn({o \o x : o \in {Tagged(87), Tagged(65)},
                     x \in Texts(EnumEndLexemes, MaxEnumTokens)})

NextEnumEnd ==
    \/ DoDeserialize(Kind)
    \/ DoFinish

SpecEnumEnd == InitEnumEnd /\ [][NextEnumEnd]_vars

\* the index just past the payload of the text {"W" : null or {"A" : true
\* (whitespace between the tokens allowed), 0 for any other text
PayloadEnd(s) ==
    LET k == NonWhitespaceFrom(s, 5)
        q == NonWhitespaceFrom(s, k + 1)
        word == IF s[3] = 87 THEN Str_null ELSE Str_true
    IN  IF /\ Len(s) >= 4
           /\ SubSeq(s, 1, 4) \in {Tagged(87), Tagged(65)}
           /\ k <= Len(s) /\ s[k] = COLON
           /\ q <= Len(s) /\ FoldedRun(s, q, word) = word
        THEN q + Len(word)
        ELSE 0

\* C21: an enum object holds exactly one entry: after the payload of the
\* variant the next significant byte has to be `}`, which is consumed; any
\* other byte there, a `,` included, gives UnexpectedTokenWhileEndParsingEnum
\* with that byte and its position, and the end of the input gives
\* EofWhileEndParsingEnum.
EnumSingleEntry ==
    (ret.op = "deserialize" /\ ret.target = Kind /\ PayloadEnd(Src) > 0) =>
        LET e == SignificantFrom(Src, PayloadEnd(Src))
        IN  IF e > Len(Src)
            THEN ret.k = "err" /\ ret.e.kind = "EofWhileEndParsingEnum"
            ELSE IF Src[e] = RBRACE
            THEN ret.k = "ok" /\ Cursor(tokenizer) = e + 1
            ELSE /\ ret.k = "err"
                 /\ ret.e.kind = "UnexpectedTokenWhileEndParsingEnum"
                 /\ ret.e.found = Src[e]
                 /\ ret.e.pos = PosOf(Src, e)

(***************************************************************************)
(* SpecNumber: any calls on a fresh NumberBuilder, then build.             *)
(***************************************************************************)
NumberBytes == {48, 49, MINUS, DOT, 101, 255}

NumberSlices ==
    {<<49, 50>>, <<110, 97, 110>>,
     <<57, 50, 50, 51, 51, 55, 50, 48, 51, 54, 56, 53, 52, 55, 55, 53, 56, 48, 56>>}

InitNumber == InitOn({<<>>})

NextNumber ==
    \/ \E c \in NumberBytes : DoPush(c)
    \/ \E slice \in NumberSlices : DoExtendFromSlice(slice)
    \/ \E dot \in {DOT, 49} : DoVisitFractionDot(dot)
    \/ \E exp \in {101, 69} : DoVisitExponentE(exp)
    \/ DoBuild

SpecNumber == InitNumber /\ [][NextNumber]_vars

\* whether a fraction dot or an exponent marker was visited
MarkerVisited(b) ==
    \E i \in 1..Len(b.calls) :
        b.calls[i].op \in {"visit_fraction_dot", "visit_exponent_e"}

\* the bytes given to the builder, in order
RECURSIVE Given(_)
Given(calls) ==
    IF calls = <<>> THEN <<>> ELSE calls[1].bytes \o Given(Tail(calls))

\* C22: a NumberBuilder starts as integer, is promoted to float by the first
\* visit of a fraction dot or exponent marker and never returns to integer
\* (plain pushes never change the tag); its buffer is exactly the bytes given
\* to it, in order; building the generic numeric value goes by the integer
\* conversion, and yields the integer variant when it yields a value, if and
\* only if no dot or exponent marker was visited.
NumericClassification ==
    /\ builder.calls = <<>> => builder.ty = "Integer" /\ builder.buff = <<>>
    /\ builder.ty = "Float" <=> MarkerVisited(builder)
    /\ builder.buff = Given(builder.calls)
    /\ ret.op = "build" =>
           /\ ret.r.k = "ok" => (ret.r.variant = "Integer" <=> ~MarkerVisited(builder))
           /\ ret.r.k = "err" => (ret.r.conversion = "Integer" <=> ~MarkerVisited(builder))

\* 1 was pushed after a visit of the dot, and the build gave the float 1.1
NumericClassificationWitness ==
    /\ ret.op = "build"
    /\ Len(builder.calls) = 3
    /\ builder.calls[2].op = "visit_fraction_dot"
    /\ builder.calls[3].op = "push"
    /\ builder.buff = <<49, DOT, 49>>
    /\ ret.r.k = "ok"
    /\ ret.r.variant = "Float"
    /\ ret.r.v.frac = <<49>>

(***************************************************************************)
(* String literals that end early or hold a malformed escape (SpecStr).    *)
(***************************************************************************)
\* the first index from i to i + 3 at which s ends or has a byte that is no
\* hex digit; i + 4 when the four bytes are hex digits
HexStop(s, i) ==
    IF \E j \in i..(i + 3) : j > Len(s) \/ ~IsHex(s[j])
    THEN CHOOSE j \in i..(i + 3) :
             /\ j > Len(s) \/ ~IsHex(s[j])
             /\ \A h \in i..(j - 1) : h <= Len(s) /\ IsHex(s[h])
    ELSE i + 4

RECURSIVE ContentStop(_, _)
\* where the content of a literal, read from index i of s as unescaped
\* non-control bytes, table escapes and \u escapes of four hex digits, stops,
\* and on what: the end of the input ("eof" between two of these, "eof_escape"
\* after a backslash or within the four digits), the closing quote, a control
\* byte, a byte after the backslash that the table does not have, a byte
\* among the four that is no hex digit
ContentStop(s, i) ==
    IF i > Len(s) THEN [at |-> i, on |-> "eof"]
    ELSE IF s[i] = QUOTE THEN [at |-> i, on |-> "quote"]
    ELSE IF IsControlByte(s[i]) THEN [at |-> i, on |-> "control"]
    ELSE IF s[i] # BACKSLASH THEN ContentStop(s, i + 1)
    ELSE IF i + 1 > Len(s) THEN [at |-> i + 1, on |-> "eof_escape"]
    ELSE IF TableByte(s[i + 1]) >= 0 THEN ContentStop(s, i + 2)
    ELSE IF s[i + 1] # 117 THEN [at |-> i + 1, on |-> "escape"]
    ELSE IF HexStop(s, i + 2) = i + 6 THEN ContentStop(s, i + 6)
    ELSE IF HexStop(s, i + 2) > Len(s)
         THEN [at |-> HexStop(s, i + 2), on |-> "eof_escape"]
         ELSE [at |-> HexStop(s, i + 2), on |-> "unicode"]

\* C23: a string literal whose input ends before the closing quote fails with
\* EofWhileEndParsingString, and one whose input ends right after a backslash
\* or inside the 4 hex digits of a \u escape fails with
\* EofWhileParsingEscapeSequence: the result is that error (so it is no
\* unexpected-token, invalid-escape or control-character error) and never a
\* value.
EndOfInputErrors ==
    (ret.op = "parse_string" /\ Len(Src) >= 1 /\ Src[1] = QUOTE) =>
        LET stop == ContentStop(Src, 2)
        IN  /\ stop.on = "eof" =>
                   ret.k = "err" /\ ret.e = SyntaxEof("EofWhileEndParsingString")
            /\ stop.on = "eof_escape" =>
                   ret.k = "err" /\ ret.e = SyntaxEof("EofWhileParsingEscapeSequence")

\* C24: a backslash followed by a byte outside the escape table (and not u)
\* fails with InvalidEscapeSequence carrying that byte and its position; in a
\* \u escape the first of the 4 following bytes that is no hex digit fails
\* with InvalidUnicodeEscape carrying that byte and its position; the result
\* is the error alone, no output comes with it.
InvalidEscapesCarryTheByte ==
    (ret.op = "parse_string" /\ Len(Src) >= 1 /\ Src[1] = QUOTE) =>
        LET stop == ContentStop(Src, 2)
        IN  /\ stop.on = "escape" =>
                   /\ ret.k = "err" /\ ret.v = NoVal
                   /\ ret.e = [kind |-> "InvalidEscapeSequence",
                               pos |-> PosOf(Src, stop.at), found |-> Src[stop.at]]
            /\ stop.on = "unicode" =>
                   /\ ret.k = "err" /\ ret.v = NoVal
                   /\ ret.e = [kind |-> "InvalidUnicodeEscape",
                               pos |-> PosOf(Src, stop.at), found |-> Src[stop.at]]

(***************************************************************************)
(* The length cap of parse_ident (SpecIdent).                              *)
(***************************************************************************)
\* a byte that parse_ident folds for ident: a letter, a digit, or a byte of
\* ident
Foldable(c, ident) == IsLetterOrDigit(c) \/ \E m \in 1..Len(ident) : ident[m] = c

\* C25: the run folded by parse_ident, from the first byte that is no
\* whitespace up to the cursor it leaves, never exceeds 10 bytes, however
\* long the run of letters and digits in the input is; every byte of it is
\* a letter, a digit or a byte of the expected identifier; it stops at the
\* cap of 10, at the end of the input or at the first byte that is none of
\* these, and the cursor is left immediately before the first byte not
\* folded; the run is what is compared with the identifier and reported.
IdentLengthCap ==
    (ret.op = "parse_ident" /\ NonWhitespaceFrom(Src, 1) <= Len(Src)) =>
        LET j == NonWhitespaceFrom(Src, 1)
            c == Cursor(tokenizer)
            run == SubSeq(Src, j, c - 1)
        IN  /\ c >= j /\ c - j <= 10
            /\ \A i \in j..(c - 1) : Foldable(Src[i], ret.target)
            /\ (c - j < 10 /\ c <= Len(Src)) => ~Foldable(Src[c], ret.target)
            /\ ret.k = "ok" => run = ret.target
            /\ ret.k # "ok" =>
                   ret.k = "err" /\ ret.e.kind = "UnexpectedIdent" /\ ret.e.found = run

\* truetrue0Ztrue asked for true: ten bytes are folded, the cursor is left
\* before the eleventh, a letter
IdentLengthCapWitness ==
    /\ ret.op = "parse_ident"
    /\ ret.target = Str_true
    /\ Src = Str_true \o <<116, 114, 117, 101, 48, 90>> \o Str_true
    /\ ret.k = "err"
    /\ ret.e.found = SubSeq(Src, 1, 10)
    /\ Cursor(tokenizer) = 11

(***************************************************************************)
(* The dispatch of a struct target (Spec, the target Setting).             *)
(***************************************************************************)
\* the errors of reading the frame and the entries of an object, of an array
ObjectKinds ==
    {"EofWhileStartParsingObject", "EofWhileEndParsingObject",
     "EofWhileParsingObjectKey", "EofWhileParsingObjectValue"}

ArrayKinds == {"EofWhileStartParsingArray", "EofWhileEndParsingArray"}

\* the failure of a struct target on the byte at index e of s
StartObjectError(s, e) ==
    [kind |-> "UnexpectedTokenWhileStartParsingObject",
     pos |-> PosOf(s, e), found |-> s[e]]

\* C26: with a struct target, a next significant byte { takes the map path
\* (the fields by their keys, closed by }) and [ takes the sequence path (the
\* field values by position, closed by ]); any other byte yields
\* UnexpectedTokenWhileStartParsingObject carrying that byte and its
\* position, and the dispatch itself consumes no significant byte: the
\* rejected byte is still the next one, and the path taken finds its own
\* opening byte.
StructDispatch ==
    (ret.op = "deserialize" /\ ret.target = Setting
        /\ SignificantFrom(Src, 1) <= Len(Src)) =>
        LET e == SignificantFrom(Src, 1)
        IN  /\ Src[e] \notin {LBRACE, LBRACKET} =>
                   /\ ret.k = "err"
                   /\ ret.e = StartObjectError(Src, e)
                   /\ Cursor(tokenizer) = e
            /\ Src[e] = LBRACE =>
                   /\ ret.k = "ok" =>
                          ret.v.k = "struct" /\ Src[Cursor(tokenizer) - 1] = RBRACE
                   /\ ret.k # "ok" =>
                          /\ ret.e # StartObjectError(Src, e)
                          /\ e = Len(Src) => ret.e.kind \in ObjectKinds
            /\ Src[e] = LBRACKET =>
                   /\ ret.k = "ok" =>
                          ret.v.k = "struct" /\ Src[Cursor(tokenizer) - 1] = RBRACKET
                   /\ ret.k # "ok" =>
                          /\ ret.e # StartObjectError(Src, e)
                          /\ e = Len(Src) => ret.e.kind \in ArrayKinds

(***************************************************************************)
(* Commas without an element before them (SpecComma).                      *)
(***************************************************************************)
\* the byte at i is a comma that no element or entry precedes: the byte
\* before it, whitespace apart, is an opening delimiter, a comma or a colon
IsStrayComma(s, i) ==
    /\ s[i] = COMMA
    /\ LET p == NonWhitespaceBefore(s, i - 1)
       IN  p >= 1 /\ s[p] \in {LBRACKET, LBRACE, COMMA, COLON}

\* C27: in an array or object a comma that is not preceded by a parsed
\* element or entry (a leading comma as in [,] or {,}, a doubled comma as in
\* [true,,true] or {"a":true,,}) always makes the parse fail: no parse of
\* such a text ends with a value, and no deserialize that succeeds has read
\* past such a comma (it is never skipped and never stands for an element).
StrayCommaRejected ==
    \A i \in 1..Len(Src) :
        IsStrayComma(Src, i) =>
            /\ pc # "done"
            /\ (ret.op = "deserialize" /\ ret.k = "ok") => Cursor(tokenizer) <= i
            /\ (ret.op = "deserialize" /\ ret.k # "ok") => Cursor(tokenizer) <= i + 1

\* [true,,] asked for as a Vec<bool>: the parse fails at the second comma
StrayCommaRejectedWitness ==
    /\ ret.op = "deserialize"
    /\ ret.target = VecT(BoolT)
    /\ Src = <<LBRACKET>> \o Str_true \o <<COMMA, COMMA, RBRACKET>>
    /\ IsStrayComma(Src, 7)
    /\ ret.k = "err"
    /\ ret.e.pos = <<0, 6>>
    /\ ret.e.found = COMMA

(***************************************************************************)
(* SpecLoop: the Tokenizer's loops run one iteration at a time, from a     *)
(* cursor some eats and finds have moved, on short texts of whitespace,    *)
(* words, quotes and escapes.  FairLoop: a loop that has been entered    *)
(* makes its next iteration (the code runs on one thread and nothing       *)
(* suspends it between two iterations).                                    *)
(***************************************************************************)
MaxLoopTokens == 2

LoopLexemes ==
    {<<SPACE>>, <<LF>>, <<97>>, <<116, 114, 117, 101, 48, 90>>, <<QUOTE>>,
     <<BACKSLASH>>, Escape(110), UnicodeEscape(<<48, 51, 98, 53>>),
     UnicodeEscape(<<68, 56, 48, 48>>)}

InitLoop == InitOn(Texts(LoopLexemes, MaxLoopTokens))

NextLoop ==
    \/ DoEat
    \/ DoFind
    \/ \E loop \in {"eat_whitespace", "skip_whitespace", "parse_string_content"} :
           DoEnterLoop(loop)
    \/ DoEnterFoldToken(Str_true)
    \/ DoIteration

SpecLoop == InitLoop /\ [][NextLoop]_vars

FairLoop == SpecLoop /\ WF_vars(DoIteration)

\* a loop is running
InLoop == pc \in {"eat_whitespace", "skip_whitespace", "fold_token", "parse_string_content"}

\* C28: every iteration of eat_whitespace, skip_whitespace, fold_token and
\* parse_string_content consumes at least one byte or leaves the loop; no
\* operation moves the cursor backwards; each input byte is taken from the
\* input at most once (what the position tracker has yielded is a prefix of
\* the input, in order); and every call of one of these loops eventually
\* ends, with a value or an error.
SinglePassTermination ==
    /\ [][InLoop => (Cursor(tokenizer)' > Cursor(tokenizer) \/ pc' = "returned")]_vars
    /\ [][Cursor(tokenizer)' >= Cursor(tokenizer)]_vars
    /\ [](/\ Len(tokenizer.log) <= Len(Src)
          /\ \A i \in 1..Len(tokenizer.log) :
                 tokenizer.log[i].c = Src[i] /\ tokenizer.log[i].pos = PosOf(Src, i))
    /\ [](pc = "returned" => ret.k \in {"ok", "err"})
    /\ InLoop ~> (pc = "returned")

=============================================================================
